---- MODULE Spec2Model ----
(***************************************************************************)
(* A model of libgqlite3 (GQL): the hex content codec, the lazily compiled *)
(* Vertices / Edges selections with their "bounce" collapse, and the       *)
(* statements GQL hands to SQLite.  A compiled command (the member `cmd`)  *)
(* is kept as the text the code builds, tokenised into the terms of a      *)
(* compound SELECT, so that the way SQLite reads a concatenated text       *)
(* (left-associative UNION / INTERSECT, one trailing LIMIT) is part of     *)
(* the model.                                                              *)
(***************************************************************************)
EXTENDS Integers, Sequences, FiniteSets, TLC

VARIABLES
  nodes,            \* table nodes: id -> [label, tags], as stored (hex text)
  edges,            \* table edges: id -> [source, target, label, tags]
  sql_call_counter, \* GQL::sql_call_counter
  next_node_id,     \* GQL::next_node_id
  next_edge_id,     \* GQL::next_edge_id
  sels,             \* the Vertices / Edges objects the caller holds
  res,              \* what the last materializing call returned
  codec,            \* the last call of hex_encode / hex_decode
  gql,              \* the GQL object: alive, GQL::filepath, GQL::persistent,
                    \* and the statements run by the objects before it
  conn,             \* the connection GQL::db: transaction open, rows committed
  file              \* the database file on disk, NoFile when there is none

vars == <<nodes, edges, sql_call_counter, next_node_id, next_edge_id,
          sels, res, codec, gql, conn, file>>

----------------------------------------------------------------------------
(* Bounds of the model *)

MaxStrLen == 4      \* longest byte string handed to hex_encode
MaxTextLen == 4     \* longest foreign text handed to hex_decode
MaxPath == 7        \* longest path graph 1 -> 2 -> ... -> N
MaxSels == 3        \* selections a caller builds in the algebra runs
MaxWrites == 2      \* writes per run in the label / tag runs

----------------------------------------------------------------------------
(* Content codec *)

GQL_BOUNCE_THRESH == 128

\* The bytes of a std::string are (signed) chars.
Char == -128 .. 127

\* "0123456789ABCDEF" as character codes
to_hex == <<48, 49, 50, 51, 52, 53, 54, 55, 56, 57, 65, 66, 67, 68, 69, 70>>

\* The text "NULL" that GQL::sql stores for an SQL NULL
NULLText == <<78, 85, 76, 76>>

\* std::string::at / std::map::at : a value, or an exception
Ok(v) == [ok |-> TRUE, val |-> v]
Throw == [ok |-> FALSE]

\* the high nibble masked with 0b0111
HiNibble_mask7(c) == (c \div 16) % 8

\* (c >> 4) & 0b1111 and c & 0b1111 on a signed char
HiNibble(c) == (c \div 16) % 16
LoNibble(c) == c % 16

RECURSIVE hex_encode(_)
hex_encode(s) ==
  IF s = <<>> THEN <<>>
  ELSE <<to_hex[HiNibble(Head(s)) + 1], to_hex[LoNibble(Head(s)) + 1]>>
       \o hex_encode(Tail(s))

\* char_to_hex.at(c): the nibble, or std::out_of_range
char_to_hex(c) ==
  IF \E i \in 1..16 : to_hex[i] = c
  THEN Ok((CHOOSE i \in 1..16 : to_hex[i] = c) - 1)
  ELSE Throw

\* out.push_back((first << 4) | second): a uint8_t stored into a char
ToChar(b) == IF b > 127 THEN b - 256 ELSE b

RECURSIVE hex_decode_from(_, _)
hex_decode_from(w, i) ==
  IF i > Len(w) THEN Ok(<<>>)
  ELSE IF i + 1 > Len(w) THEN Throw
  ELSE LET first  == char_to_hex(w[i])
           second == char_to_hex(w[i + 1])
       IN IF ~first.ok \/ ~second.ok THEN Throw
          ELSE LET rest == hex_decode_from(w, i + 2)
               IN IF ~rest.ok THEN Throw
                  ELSE Ok(<<ToChar(first.val * 16 + second.val)>> \o rest.val)

hex_decode(w) ==
  IF w = NULLText THEN Ok(w) ELSE hex_decode_from(w, 1)

----------------------------------------------------------------------------
(* Compiled commands.  A command is the text of a SELECT statement, kept   *)
(* as the sequence of its terms: term i is a simple SELECT (`core`), the   *)
(* compound operator written before it (`op`, "" for the first term) and   *)
(* the LIMIT written after it (`lim`, NoLimit when there is none).  A core *)
(* holds the commands spliced into its parentheses.                        *)

NoLimit == -1

Term(c) == [op |-> "", core |-> c, lim |-> NoLimit]

\* number of characters std::to_string / std::format write for n
RECURSIVE Digits(_)
Digits(n) == IF n < 10 THEN 1 ELSE 1 + Digits(n \div 10)

\* characters of "i," for every i of ids (the last ',' becomes ')')
RECURSIVE IdListLen(_)
IdListLen(ids) ==
  IF ids = {} THEN 0
  ELSE LET i == CHOOSE j \in ids : TRUE
       IN Digits(i) + 1 + IdListLen(ids \ {i})

\* Characters of the format strings, the substituted parts left out
SqlLen ==
  [ Table         |-> 19, \* SELECT * FROM nodes
    Where         |-> 26, \* SELECT * FROM nodes WHERE
    IdEq          |-> 5, \* id = {}
    Flat          |-> 33, \* SELECT * FROM nodes WHERE id IN (
    From          |-> 16, \* SELECT * FROM ({})
    Limit         |-> 7, \*  LIMIT {}
    WithLabel     |-> 33, \* SELECT * FROM ({}) WHERE label = '{}'
    WithTag       |-> 52, \* SELECT * FROM ({}) WHERE json_extract(tags, '$.{}') = '{}'
    WithId        |-> 28, \* SELECT * FROM ({}) WHERE id = {}
    Union         |-> 7, \* {} UNION {}
    Intersect     |-> 11, \* {} INTERSECT {}
    NotIn         |-> 52, \* SELECT * FROM ({}) WHERE id NOT IN (SELECT id FROM ({}))
    InOut         |-> 55, \* SELECT * FROM edges WHERE source IN (SELECT id FROM ({}))
    SourceTarget  |-> 61, \* SELECT * FROM nodes WHERE id IN (SELECT target AS id FROM ({}))
    WithSource    |-> 52, \* SELECT * FROM ({}) WHERE source IN (SELECT id FROM ({}))
    WithDegree    |-> 160, \* WITH n AS ({}) SELECT id, label, tags FROM (...) t WHERE t.c = {}
    Traverse      |-> 257, \* WITH RECURSIVE t AS (SELECT id FROM ({}) UNION ...) SELECT * FROM t JOIN nodes ON t.id = nodes.id
    Pairs         |-> 91] \* SELECT * FROM edges WHERE (source, target) IN (... ({}) l CROSS JOIN ({}) r)

\* a condition the caller writes in SQL: "1", or "id != <id>"
CondTrue == [k |-> "1"]
CondIdNot(i) == [k |-> "idNot", id |-> i]
CondLen(c) == IF c.k = "1" THEN 1 ELSE 6 + Digits(c.id)
CondHolds(c, i) == c.k = "1" \/ i # c.id

RECURSIVE TextLen(_)
CoreLen(c) ==
  CASE c.k = "table"   -> SqlLen.Table
    [] c.k = "whereId" -> SqlLen.Where + SqlLen.IdEq + Digits(c.id)
    [] c.k = "flat"    -> SqlLen.Flat + (IF c.ids = {} THEN 1 ELSE IdListLen(c.ids))
    [] c.k = "from"    -> SqlLen.From + TextLen(c.sub)
    [] c.k = "label"   -> SqlLen.WithLabel + TextLen(c.sub) + Len(c.label)
    [] c.k = "tag"     -> SqlLen.WithTag + TextLen(c.sub) + Len(c.key) + Len(c.val)
    [] c.k = "id"      -> SqlLen.WithId + TextLen(c.sub) + Digits(c.id)
    [] c.k = "notin"   -> SqlLen.NotIn + TextLen(c.sub) + TextLen(c.minus)
    [] c.k \in {"in", "out"} -> SqlLen.InOut + TextLen(c.sub)
    [] c.k \in {"source", "target"} -> SqlLen.SourceTarget + TextLen(c.sub)
    [] c.k \in {"withSource", "withTarget"} ->
         SqlLen.WithSource + TextLen(c.sub) + TextLen(c.of)
    [] c.k \in {"inDegree", "outDegree"} ->
         SqlLen.WithDegree + TextLen(c.sub) + Digits(c.n)
    [] c.k = "pairs"   -> SqlLen.Pairs + TextLen(c.sub) + TextLen(c.of)
    [] c.k = "traverse" ->
         SqlLen.Traverse + TextLen(c.sub) + CondLen(c.edge) + CondLen(c.node)

TermLen(x) ==
  (CASE x.op = "" -> 0
     [] x.op = "UNION" -> SqlLen.Union
     [] x.op = "INTERSECT" -> SqlLen.Intersect)
  + CoreLen(x.core)
  + (IF x.lim = NoLimit THEN 0 ELSE SqlLen.Limit + Digits(x.lim))

\* std::string::size() of the command
TextLen(cmd) ==
  IF cmd = <<>> THEN 0 ELSE TermLen(Head(cmd)) + TextLen(Tail(cmd))

----------------------------------------------------------------------------
(* What SQLite answers to a command: the ids of the rows it selects, or an *)
(* error.  The rows of a command are rows of one table, so a row is known  *)
(* by its id.                                                              *)

Rows(ids) == [ok |-> TRUE, ids |-> ids]
SqlError == [ok |-> FALSE]

\* the rows a statement returns, in the order it returns them
Scanned(q) == [ok |-> TRUE, ids |-> {q[n] : n \in DOMAIN q}, seq |-> q]

\* the first n rows of a scan; every row when there is no LIMIT
FirstRows(q, n) ==
  IF n = NoLimit \/ n >= Len(q) THEN q ELSE SubSeq(q, 1, n)

\* the edges `ids` as a search of the index edge_src / edge_tgt delivers
\* them: by ascending source / target, then by ascending id
RECURSIVE ByIndex(_, _, _)
ByIndex(ids, g, end) ==
  IF ids = {} THEN <<>>
  ELSE LET m == CHOOSE i \in ids : \A j \in ids :
                  \/ g.edges[i][end] < g.edges[j][end]
                  \/ g.edges[i][end] = g.edges[j][end] /\ i <= j
       IN <<m>> \o ByIndex(ids \ {m}, g, end)

\* the rows `ids` by ascending id: a scan of a table by rowid, of a label
\* index for one label, or of the sorted rows of a compound SELECT
RECURSIVE ByRowid(_)
ByRowid(ids) ==
  IF ids = {} THEN <<>>
  ELSE LET m == CHOOSE i \in ids : \A j \in ids : i <= j
       IN <<m>> \o ByRowid(ids \ {m})

\* json_extract(tags, '$.key')
HasTag(row, key, val) == key \in DOMAIN row.tags /\ row.tags[key] = val

\* a count of the vertices at the other end instead of the edges
Degree_neighbours(g, end, n) ==
  Cardinality({IF end = "source" THEN g.edges[e].target ELSE g.edges[e].source :
                 e \in {x \in DOMAIN g.edges : g.edges[x][end] = n}})

\* COUNT(e.id) of the LEFT JOIN of vertex n with the edges ON e.<end> = n.id
Degree(g, end, n) ==
  Cardinality({e \in DOMAIN g.edges : g.edges[e][end] = n})

\* the recursive SELECT that follows every edge, whatever its far end
TraverseStep_anyNode(g, c, i) ==
  LET near == IF c.rev THEN "target" ELSE "source"
      far  == IF c.rev THEN "source" ELSE "target"
  IN {g.edges[e][far] :
        e \in {x \in DOMAIN g.edges : /\ CondHolds(c.edge, x)
                                      /\ g.edges[x][near] = i}}

\* the rows the recursive SELECT of a traversal adds for the row i of t:
\* t JOIN (edges WHERE <edge>) e ON t.id = e.source
\*   JOIN (nodes WHERE <node>) n ON e.target = n.id
\* (source and target exchanged for r_traverse)
TraverseStep(g, c, i) ==
  LET near == IF c.rev THEN "target" ELSE "source"
      far  == IF c.rev THEN "source" ELSE "target"
  IN {g.edges[e][far] :
        e \in {x \in DOMAIN g.edges :
                 /\ CondHolds(c.edge, x)
                 /\ g.edges[x][near] = i
                 /\ g.edges[x][far] \in DOMAIN g.nodes
                 /\ CondHolds(c.node, g.edges[x][far])}}

\* WITH RECURSIVE t AS (<seed> UNION <recursive SELECT>): SQLite takes a row
\* from the queue, adds it to t, and queues the rows the recursive SELECT
\* gives for it that UNION has not seen yet
RECURSIVE TraverseRows(_, _, _, _)
TraverseRows(g, c, seen, queue) ==
  IF queue = {} THEN seen
  ELSE LET i == CHOOSE j \in queue : \A m \in queue : j <= m
       IN TraverseRows(g, c, seen \cup {i},
                       (queue \ {i})
                         \cup (TraverseStep(g, c, i) \ (seen \cup queue)))

RECURSIVE EvalCmd(_, _), EvalTerms(_, _, _)

\* what the SELECT of the core c gives on the rows s of its inner command
\* (and the rows m of the command it is compared with, where it has one)
CoreRows(c, g, s, m) ==
  LET Labelled(i) == g[c.t][i].label = c.label
  IN CASE c.k = "label" ->
            IF Len(c.sub) = 1 /\ c.sub[1].core.k = "from"
            THEN Scanned(SelectSeq(s.seq, Labelled))
            ELSE Scanned(ByRowid({i \in s.ids : Labelled(i)}))
       [] c.k = "tag" ->
            Rows({i \in s.ids : HasTag(g[c.t][i], c.key, c.val)})
       [] c.k = "id" -> Rows(s.ids \cap {c.id})
       [] c.k = "notin" -> Rows(s.ids \ m.ids)
       [] c.k = "in" ->
            Scanned(ByIndex({e \in DOMAIN g.edges :
                               g.edges[e].target \in s.ids}, g, "target"))
       [] c.k = "out" ->
            Scanned(ByIndex({e \in DOMAIN g.edges :
                               g.edges[e].source \in s.ids}, g, "source"))
       [] c.k = "source" ->
            Rows({n \in DOMAIN g.nodes : \E e \in s.ids : g.edges[e].source = n})
       [] c.k = "target" ->
            Rows({n \in DOMAIN g.nodes : \E e \in s.ids : g.edges[e].target = n})
       [] c.k = "withSource" ->
            Rows({e \in s.ids : g.edges[e].source \in m.ids})
       [] c.k = "withTarget" ->
            Rows({e \in s.ids : g.edges[e].target \in m.ids})
       [] c.k = "inDegree" ->
            Rows({n \in s.ids : Degree(g, "target", n) = c.n})
       [] c.k = "outDegree" ->
            Rows({n \in s.ids : Degree(g, "source", n) = c.n})
       [] c.k = "traverse" ->
            Rows(TraverseRows(g, c, {}, s.ids) \cap DOMAIN g.nodes)
       [] c.k = "pairs" ->
            Rows({e \in DOMAIN g.edges : /\ g.edges[e].source \in s.ids
                                         /\ g.edges[e].target \in m.ids})

\* the inner commands are evaluated once, then the SELECT around them; a
\* command that fails makes the statement fail
EvalCore(c, g) ==
  CASE c.k = "table"   -> Rows(DOMAIN g[c.t])
    [] c.k = "whereId" -> Rows({c.id} \cap DOMAIN g[c.t])
    [] c.k = "flat"    -> Rows(c.ids \cap DOMAIN g[c.t])
    [] c.k = "from"    -> EvalCmd(c.sub, g)
    [] OTHER ->
         CHOOSE out \in
           {IF ~s.ok \/ ~m.ok THEN SqlError ELSE CoreRows(c, g, s, m) :
              s \in {EvalCmd(c.sub, g)},
              m \in {IF c.k = "notin" THEN EvalCmd(c.minus, g)
                     ELSE IF c.k \in {"withSource", "withTarget", "pairs"}
                     THEN EvalCmd(c.of, g)
                     ELSE Rows({})}} : TRUE

\* terms 1..n of a compound SELECT: the operators have the same precedence
\* and group from left to right
EvalTerms(cmd, n, g) ==
  IF n = 1 THEN EvalCore(cmd[1].core, g)
  ELSE CHOOSE out \in
         {IF ~l.ok \/ ~r.ok THEN SqlError
          ELSE IF cmd[n].op = "UNION" THEN Rows(l.ids \cup r.ids)
          ELSE Rows(l.ids \cap r.ids) :
            l \in {EvalTerms(cmd, n - 1, g)},
            r \in {EvalCore(cmd[n].core, g)}} : TRUE

\* SQLite rejects a LIMIT written before a compound operator ("LIMIT clause
\* should come after UNION not before") and a WITH clause written after
\* one; the LIMIT of the last term limits the whole compound.  A traversal
\* has four columns (t.id and the columns of nodes), a row of nodes three.
\* No statement of a command has an ORDER BY: its rows come in the order
\* SQLite (3.40, with the indices GQL::GQL creates) scans them.  The edges of
\* in() / out() come from a search of edge_tgt / edge_src, the rows under a
\* LIMIT in the order of the command the LIMIT was put on, a label filter
\* over such rows keeps their order, and every other command gives its rows
\* by ascending id.
EvalCmd(cmd, g) ==
  IF \/ \E i \in 1..(Len(cmd) - 1) : cmd[i].lim # NoLimit
     \/ \E i \in 2..Len(cmd) :
          cmd[i].core.k \in {"inDegree", "outDegree", "traverse"}
     \/ Len(cmd) > 1 /\ cmd[1].core.k = "traverse"
  THEN SqlError
  ELSE CHOOSE out \in
         {IF ~r.ok THEN SqlError
          ELSE IF Len(cmd) = 1 /\ cmd[1].core.k \in {"from", "label", "in", "out"}
          THEN Scanned(FirstRows(r.seq, cmd[Len(cmd)].lim))
          ELSE Scanned(FirstRows(ByRowid(r.ids), cmd[Len(cmd)].lim)) :
            r \in {EvalTerms(cmd, Len(cmd), g)}} : TRUE

----------------------------------------------------------------------------
(* Vertices and Edges.  A constructor call returns the object's command,   *)
(* the number of statements it handed to GQL::sql, or reports that it      *)
(* threw.                                                                  *)

\* `size` is _cmd.size(), the length the constructor tested
Object(cmd, calls, size) ==
  [ok |-> TRUE, cmd |-> cmd, calls |-> calls, size |-> size]
Thrown(calls, size) ==
  [ok |-> FALSE, cmd |-> <<>>, calls |-> calls, size |-> size]

\* ORDER BY id DESC
RECURSIVE Ascending_desc(_)
Ascending_desc(ids) ==
  IF ids = {} THEN <<>>
  ELSE LET m == CHOOSE i \in ids : \A j \in ids : j <= i
       IN <<m>> \o Ascending_desc(ids \ {m})

\* the elements of a set of ids in ascending order (ORDER BY id)
RECURSIVE Ascending(_)
Ascending(ids) ==
  IF ids = {} THEN <<>>
  ELSE LET m == CHOOSE i \in ids : \A j \in ids : i <= j
       IN <<m>> \o Ascending(ids \ {m})

\* a bounce whose closing parenthesis overwrites the last id of the list
Flat_dropLast(t, ids) ==
  <<Term([k |-> "flat", t |-> t,
          ids |-> {i \in ids : \E j \in ids : j > i},
          list |-> Ascending({i \in ids : \E j \in ids : j > i})])>>

\* the bounced command: SELECT * FROM <t> WHERE id IN (<ids>); `list` is
\* the text between the parentheses, the ids as id() returned them
Flat(t, ids) ==
  <<Term([k |-> "flat", t |-> t, ids |-> ids, list |-> Ascending(ids)])>>

\* a constructor that keeps the command whatever its length
Construct_keep(t, cmd, g) == Object(cmd, 0, TextLen(cmd))

\* a constructor that runs its id query whatever the length of the command
Construct_eager(t, cmd, g) ==
  LET r == EvalCmd(cmd, g)
  IN IF ~r.ok THEN Thrown(1, TextLen(cmd))
     ELSE IF TextLen(cmd) > GQL_BOUNCE_THRESH
     THEN Object(Flat(t, r.ids), 1, TextLen(cmd))
     ELSE Object(cmd, 1, TextLen(cmd))

\* GQL::Vertices::Vertices and GQL::Edges::Edges on table t: a command of
\* more than GQL_BOUNCE_THRESH characters is replaced by the ids it selects
\* now; the id query throws when SQLite rejects the command.
Construct(t, cmd, g) ==
  IF TextLen(cmd) > GQL_BOUNCE_THRESH
  THEN LET r == EvalCmd(cmd, g)
       IN IF r.ok THEN Object(Flat(t, r.ids), 1, TextLen(cmd))
          ELSE Thrown(1, TextLen(cmd))
  ELSE Object(cmd, 0, TextLen(cmd))

\* "{} UNION {}" and "{} INTERSECT {}": the two texts side by side
Compound(a, op, b) == a \o <<[b[1] EXCEPT !.op = op]>> \o Tail(b)

\* GQL::v() / GQL::e()
v(t, g) == Construct(t, <<Term([k |-> "table", t |-> t])>>, g)

\* GQL::v("id = <id>") / GQL::e("id = <id>"), what add_vertex / add_edge return
v_id(t, id, g) ==
  Construct(t, <<Term([k |-> "whereId", t |-> t, id |-> id])>>, g)

limit(t, cmd, n, g) ==
  Construct(t, <<[op |-> "", core |-> [k |-> "from", t |-> t, sub |-> cmd],
                  lim |-> n]>>, g)

with_label(t, cmd, label, g) ==
  Construct(t, <<Term([k |-> "label", t |-> t, sub |-> cmd,
                       label |-> hex_encode(label)])>>, g)

with_tag(t, cmd, key, value, g) ==
  Construct(t, <<Term([k |-> "tag", t |-> t, sub |-> cmd,
                       key |-> hex_encode(key),
                       val |-> hex_encode(value)])>>, g)

with_id(t, cmd, id, g) ==
  Construct(t, <<Term([k |-> "id", t |-> t, sub |-> cmd, id |-> id])>>, g)

join(t, cmd, with, g) == Construct(t, Compound(cmd, "UNION", with), g)

intersection(t, cmd, with, g) ==
  Construct(t, Compound(cmd, "INTERSECT", with), g)

complement(t, cmd, universe, g) ==
  Construct(t, <<Term([k |-> "notin", t |-> t, sub |-> universe,
                       minus |-> cmd])>>, g)

excluding(t, cmd, subgroup, g) ==
  Construct(t, <<Term([k |-> "notin", t |-> t, sub |-> cmd,
                       minus |-> subgroup])>>, g)

\* GQL::Vertices::in / out
Vertices_in(cmd, g) ==
  Construct("edges", <<Term([k |-> "in", t |-> "edges", sub |-> cmd])>>, g)

Vertices_out(cmd, g) ==
  Construct("edges", <<Term([k |-> "out", t |-> "edges", sub |-> cmd])>>, g)

with_in_degree(cmd, count, g) ==
  Construct("nodes", <<Term([k |-> "inDegree", t |-> "nodes", sub |-> cmd,
                             n |-> count])>>, g)

with_out_degree(cmd, count, g) ==
  Construct("nodes", <<Term([k |-> "outDegree", t |-> "nodes", sub |-> cmd,
                             n |-> count])>>, g)

\* GQL::Vertices::traverse / r_traverse of gql.hpp 0.0.4, whose constructor
\* keeps the text it is given
traverse(cmd, where_node, where_edge) ==
  LET text == <<Term([k |-> "traverse", t |-> "nodes", sub |-> cmd,
                      node |-> where_node, edge |-> where_edge,
                      rev |-> FALSE])>>
  IN Object(text, 0, TextLen(text))

r_traverse(cmd, where_node, where_edge) ==
  LET text == <<Term([k |-> "traverse", t |-> "nodes", sub |-> cmd,
                      node |-> where_node, edge |-> where_edge,
                      rev |-> TRUE])>>
  IN Object(text, 0, TextLen(text))

\* GQL::Edges::source / target / with_source / with_target
Edges_source(cmd, g) ==
  Construct("nodes", <<Term([k |-> "source", t |-> "nodes", sub |-> cmd])>>, g)

Edges_target(cmd, g) ==
  Construct("nodes", <<Term([k |-> "target", t |-> "nodes", sub |-> cmd])>>, g)

with_source(cmd, of, g) ==
  Construct("edges", <<Term([k |-> "withSource", t |-> "edges", sub |-> cmd,
                             of |-> of])>>, g)

with_target(cmd, of, g) ==
  Construct("edges", <<Term([k |-> "withTarget", t |-> "edges", sub |-> cmd,
                             of |-> of])>>, g)

\* GQL::Vertices::id / GQL::Edges::id : "SELECT id FROM ({}) ORDER BY id;"
id(cmd, g) ==
  LET r == EvalCmd(cmd, g)
  IN IF r.ok THEN [op |-> "id", ok |-> TRUE, ids |-> Ascending(r.ids)]
     ELSE [op |-> "id", ok |-> FALSE, ids |-> <<>>]

\* the database the statements run on
DB == [nodes |-> nodes, edges |-> edges]

----------------------------------------------------------------------------
(* The session after GQL::GQL on a new store *)

NoRes == [op |-> "none"]

NoCodec == [op |-> "none", in |-> <<>>, text |-> <<>>, out |-> Throw]

\* GQL::GQL hands nine statements to GQL::sql (two tables, six indices, BEGIN)
CtorCalls == 9

\* the tables as CREATE TABLE leaves them
NoRows == [nodes |-> <<>>, edges |-> <<>>]

\* no file at the path
NoFile == [exists |-> FALSE]

\* the default path: a database kept in memory, never a file
Memory == ":memory:"

\* GQL g; the tables were created before BEGIN, and are committed
InMemory ==
  /\ gql = [alive |-> TRUE, filepath |-> Memory, persistent |-> TRUE, spent |-> 0]
  /\ conn = [tx |-> TRUE, committed |-> NoRows]
  /\ file = NoFile

InitSession ==
  /\ InMemory
  /\ nodes = <<>>
  /\ edges = <<>>
  /\ sql_call_counter = CtorCalls
  /\ next_node_id = 1
  /\ next_edge_id = 1
  /\ sels = <<>>
  /\ res = NoRes

Session == <<nodes, edges, sql_call_counter, next_node_id, next_edge_id,
             sels, res, gql, conn, file>>

----------------------------------------------------------------------------
(* Statements that change the tables *)

\* a row as the schema's defaults leave it: label '', tags '{}'
NewNode == [label |-> <<>>, tags |-> <<>>]
NewEdge(source, target) ==
  [source |-> source, target |-> target, label |-> <<>>, tags |-> <<>>]

\* f with x mapped to y (x added to the domain when it is new)
Put(f, x, y) == [z \in DOMAIN f \cup {x} |-> IF z = x THEN y ELSE f[z]]

\* the rowid SQLite gives a row inserted without an id: one more than the
\* largest in the table
NextRowid(tbl) ==
  IF DOMAIN tbl = {} THEN 1
  ELSE (CHOOSE i \in DOMAIN tbl : \A j \in DOMAIN tbl : j <= i) + 1

\* INSERT INTO edges (source, target) for the pairs of ps, a sequence
RECURSIVE InsertPairs(_, _)
InsertPairs(tbl, ps) ==
  IF ps = <<>> THEN tbl
  ELSE InsertPairs(Put(tbl, NextRowid(tbl), NewEdge(Head(ps)[1], Head(ps)[2])),
                   Tail(ps))

\* the rows of l CROSS JOIN r, l in the outer loop
CrossJoin(l, r) ==
  LET ls == Ascending(l)
      rs == Ascending(r)
  IN [k \in 1..(Len(ls) * Len(rs)) |->
        <<ls[((k - 1) \div Len(rs)) + 1], rs[((k - 1) % Len(rs)) + 1]>>]

\* UPDATE <t> SET label = '<hex>' WHERE id IN (SELECT id FROM (<cmd>))
SetLabel(tbl, ids, label) ==
  [i \in DOMAIN tbl |->
     IF i \in ids THEN [tbl[i] EXCEPT !.label = hex_encode(label)]
     ELSE tbl[i]]

\* UPDATE <t> SET tags = json_set(tags, '$.<hex>', '<hex>') WHERE id IN (...)
SetTag(tbl, ids, key, value) ==
  [i \in DOMAIN tbl |->
     IF i \in ids
     THEN [tbl[i] EXCEPT !.tags = Put(@, hex_encode(key), hex_encode(value))]
     ELSE tbl[i]]

\* "next", the label test_bounce gives the edges of its path
NextLabel == <<110, 101, 120, 116>>

\* a caller's object in `sels`: its table and command, the call that made
\* it (`by`), the length of the text its constructor was given, and, where
\* a run keeps it, the command as it would read without any bounce
Sel(t, o, by) == [t |-> t, cmd |-> o.cmd, size |-> o.size, by |-> by]

----------------------------------------------------------------------------
(* Bounce runs, after test_bounce: a path graph is built, then a query     *)
(* hops along it.                                                          *)

\* g.add_vertex(1) on the empty graph
BuildFirst ==
  /\ DOMAIN nodes = {}
  /\ sels = <<>>
  /\ nodes' = Put(nodes, 1, NewNode)
  /\ sql_call_counter' = sql_call_counter + 1 + v_id("nodes", 1, DB).calls
  /\ UNCHANGED <<edges, next_node_id, next_edge_id, sels, res, codec, gql, conn, file>>

\* g.v().with_id(i).add_edge(g.add_vertex(i + 1)).label("next")
BuildNext ==
  /\ DOMAIN nodes # {}
  /\ Cardinality(DOMAIN nodes) < MaxPath
  /\ sels = <<>>
  /\ LET i  == Cardinality(DOMAIN nodes)
         g0 == DB
         a  == v("nodes", g0)
         b  == with_id("nodes", a.cmd, i, g0)
         \* g.add_vertex(i + 1)
         g1 == [g0 EXCEPT !.nodes = Put(@, i + 1, NewNode)]
         c  == v_id("nodes", i + 1, g1)
         \* add_edge: the INSERT, then the Edges object it returns
         l  == EvalCmd(b.cmd, g1)
         r  == EvalCmd(c.cmd, g1)
         g2 == [g1 EXCEPT !.edges = InsertPairs(@, CrossJoin(l.ids, r.ids))]
         e  == Construct("edges",
                 <<Term([k |-> "pairs", t |-> "edges", sub |-> b.cmd,
                         of |-> c.cmd])>>, g2)
         \* label("next")
         w  == EvalCmd(e.cmd, g2)
     IN /\ nodes' = g2.nodes
        /\ edges' = SetLabel(g2.edges, w.ids, NextLabel)
        /\ sql_call_counter' = sql_call_counter + a.calls + b.calls + 1
                                 + c.calls + 1 + e.calls + 1
  /\ UNCHANGED <<next_node_id, next_edge_id, sels, res, codec, gql, conn, file>>

\* GQL::Vertices query = g.v().with_id(1)
StartQuery ==
  /\ DOMAIN nodes # {}
  /\ sels = <<>>
  /\ LET a == v("nodes", DB)
         b == with_id("nodes", a.cmd, 1, DB)
     IN /\ sels' = <<Sel("nodes", b, "start") @@ [hops |-> 0, raw |-> b.cmd]>>
        /\ sql_call_counter' = sql_call_counter + a.calls + b.calls
  /\ res' = NoRes
  /\ UNCHANGED <<nodes, edges, next_node_id, next_edge_id, codec, gql, conn, file>>

\* query = query.out().with_label("next").target()
Hop ==
  /\ sels # <<>>
  /\ sels[1].hops < Cardinality(DOMAIN nodes)
  /\ LET q == sels[1]
         a == Vertices_out(q.cmd, DB)
         b == with_label("edges", a.cmd, NextLabel, DB)
         c == Edges_target(b.cmd, DB)
         raw == <<Term([k |-> "target", t |-> "nodes", sub |->
                  <<Term([k |-> "label", t |-> "edges",
                          label |-> hex_encode(NextLabel), sub |->
                  <<Term([k |-> "out", t |-> "edges", sub |-> q.raw])>>])>>])>>
     IN /\ a.ok /\ b.ok /\ c.ok
        /\ sels' = <<Sel("nodes", c, "hop")
                       @@ [hops |-> q.hops + 1, raw |-> raw]>>
        /\ sql_call_counter' = sql_call_counter + a.calls + b.calls + c.calls
  /\ res' = NoRes
  /\ UNCHANGED <<nodes, edges, next_node_id, next_edge_id, codec, gql, conn, file>>

\* query.id()
QueryId ==
  /\ sels # <<>>
  /\ res = NoRes
  /\ res' = id(sels[1].cmd, DB)
  /\ sql_call_counter' = sql_call_counter + 1
  /\ UNCHANGED <<nodes, edges, next_node_id, next_edge_id, sels, codec, gql, conn, file>>

InitBounce == InitSession /\ codec = NoCodec

NextBounce == BuildFirst \/ BuildNext \/ StartQuery \/ Hop \/ QueryId

SpecBounce == InitBounce /\ [][NextBounce]_vars

\* the path graph 1 -> 2 -> ... -> N with every edge labelled "next"
IsPath(N) ==
  /\ DOMAIN nodes = 1..N
  /\ DOMAIN edges = 1..(N - 1)
  /\ \A e \in DOMAIN edges :
       /\ edges[e].source = e
       /\ edges[e].target = e + 1
       /\ edges[e].label = hex_encode(NextLabel)

StrictlyAscending(q) == \A n \in 1..(Len(q) - 1) : q[n] < q[n + 1]

\* the command is of the flat form on table t, its ids in ascending order
IsFlat(t, cmd) ==
  /\ Len(cmd) = 1
  /\ cmd[1].op = "" /\ cmd[1].lim = NoLimit
  /\ cmd[1].core.k = "flat" /\ cmd[1].core.t = t
  /\ StrictlyAscending(cmd[1].core.list)
  /\ {cmd[1].core.list[n] : n \in DOMAIN cmd[1].core.list} = cmd[1].core.ids

\* how deep the subqueries of a command are nested
RECURSIVE Depth(_)
CoreDepth(c) ==
  IF "sub" \notin DOMAIN c THEN 0
  ELSE LET subs == {Depth(c.sub)}
                     \cup (IF "minus" \in DOMAIN c THEN {Depth(c.minus)} ELSE {})
                     \cup (IF "of" \in DOMAIN c THEN {Depth(c.of)} ELSE {})
       IN 1 + CHOOSE d \in subs : \A e \in subs : e <= d

Depth(cmd) ==
  IF cmd = <<>> THEN 0
  ELSE LET h == CoreDepth(Head(cmd).core)
           r == Depth(Tail(cmd))
       IN IF h >= r THEN h ELSE r

\* the deepest nesting a text of GQL_BOUNCE_THRESH characters has room for:
\* the innermost SELECT and the shortest wrapper around a subquery
DepthBound == (GQL_BOUNCE_THRESH - SqlLen.Table) \div SqlLen.From

----------------------------------------------------------------------------
(* Algebra runs: a caller builds Selections over a small graph, one        *)
(* combinator call at a time, and materializes them with id().  `by`       *)
(* names the call that made an object and the positions in `sels` of the   *)
(* objects it was applied to.                                              *)

LabelA == <<97>>   \* "a"
KeyK == <<107>>    \* "k"
ValueV == <<118>>  \* "v"

\* vertices 1, 2 (label "a") and 3 (no label), vertex 1 tagged k = v;
\* edges 1 -> 2 (label "a", tagged k = v), 2 -> 3 and the loop 2 -> 2
AlgNodes ==
  [i \in 1..3 |->
     [label |-> IF i < 3 THEN hex_encode(LabelA) ELSE <<>>,
      tags  |-> IF i = 1 THEN Put(<<>>, hex_encode(KeyK), hex_encode(ValueV))
                ELSE <<>>]]

AlgEdges ==
  [i \in 1..3 |->
     [source |-> IF i = 1 THEN 1 ELSE 2,
      target |-> IF i = 1 THEN 2 ELSE IF i = 2 THEN 3 ELSE 2,
      label  |-> IF i = 1 THEN hex_encode(LabelA) ELSE <<>>,
      tags   |-> IF i = 1 THEN Put(<<>>, hex_encode(KeyK), hex_encode(ValueV))
                 ELSE <<>>]]

\* the statements that built the graph: an INSERT for every row, an UPDATE
\* for every label and every tag
AlgBuildCalls ==
  LET Writes(tbl) ==
        Cardinality(DOMAIN tbl)
        + Cardinality({i \in DOMAIN tbl : tbl[i].label # <<>>})
        + Cardinality({i \in DOMAIN tbl : tbl[i].tags # <<>>})
  IN Writes(AlgNodes) + Writes(AlgEdges)

InitAlg ==
  /\ nodes = AlgNodes
  /\ edges = AlgEdges
  /\ sql_call_counter = CtorCalls + AlgBuildCalls
  /\ next_node_id = 1
  /\ next_edge_id = 4
  /\ sels = <<>>
  /\ res = NoRes
  /\ codec = NoCodec
  /\ InMemory

\* the caller receives the object o, or the exception the constructor threw;
\* a run ends with the exception or with the value of id()
Receive(t, o, by) ==
  /\ Len(sels) < MaxSels
  /\ res = NoRes
  /\ sql_call_counter' = sql_call_counter + o.calls
  /\ IF o.ok
     THEN sels' = Append(sels, Sel(t, o, by)) /\ res' = NoRes
     ELSE sels' = sels /\ res' = [op |-> "threw", by |-> by]
  /\ UNCHANGED <<nodes, edges, next_node_id, next_edge_id, codec, gql, conn, file>>

Held(t) == {a \in DOMAIN sels : sels[a].t = t}
Tables == {"nodes", "edges"}

AlgV ==
  \E t \in Tables : Receive(t, v(t, DB), [op |-> "v"])

AlgVId ==
  \E i \in {1, 3} : Receive("nodes", v_id("nodes", i, DB), [op |-> "v_id"])

AlgLimit ==
  \E a \in DOMAIN sels, n \in {1} :
    Receive(sels[a].t, limit(sels[a].t, sels[a].cmd, n, DB),
            [op |-> "limit", a |-> a, n |-> n])

AlgWithLabel ==
  \E a \in DOMAIN sels :
    Receive(sels[a].t, with_label(sels[a].t, sels[a].cmd, LabelA, DB),
            [op |-> "with_label", a |-> a])

AlgWithTag ==
  \E a \in DOMAIN sels :
    Receive(sels[a].t, with_tag(sels[a].t, sels[a].cmd, KeyK, ValueV, DB),
            [op |-> "with_tag", a |-> a])

AlgWithId ==
  \E a \in DOMAIN sels, i \in {2} :
    Receive(sels[a].t, with_id(sels[a].t, sels[a].cmd, i, DB),
            [op |-> "with_id", a |-> a, id |-> i])

AlgJoin ==
  \E a \in DOMAIN sels : \E b \in Held(sels[a].t) :
    Receive(sels[a].t, join(sels[a].t, sels[a].cmd, sels[b].cmd, DB),
            [op |-> "join", a |-> a, b |-> b])

AlgIntersection ==
  \E a \in DOMAIN sels : \E b \in Held(sels[a].t) :
    Receive(sels[a].t, intersection(sels[a].t, sels[a].cmd, sels[b].cmd, DB),
            [op |-> "intersection", a |-> a, b |-> b])

AlgComplement ==
  \E a \in DOMAIN sels : \E b \in Held(sels[a].t) :
    Receive(sels[a].t, complement(sels[a].t, sels[a].cmd, sels[b].cmd, DB),
            [op |-> "complement", a |-> a, b |-> b])

AlgExcluding ==
  \E a \in DOMAIN sels : \E b \in Held(sels[a].t) :
    Receive(sels[a].t, excluding(sels[a].t, sels[a].cmd, sels[b].cmd, DB),
            [op |-> "excluding", a |-> a, b |-> b])

AlgIn ==
  \E a \in Held("nodes") :
    Receive("edges", Vertices_in(sels[a].cmd, DB), [op |-> "in", a |-> a])

AlgOut ==
  \E a \in Held("nodes") :
    Receive("edges", Vertices_out(sels[a].cmd, DB), [op |-> "out", a |-> a])

AlgSource ==
  \E a \in Held("edges") :
    Receive("nodes", Edges_source(sels[a].cmd, DB),
            [op |-> "source", a |-> a])

AlgTarget ==
  \E a \in Held("edges") :
    Receive("nodes", Edges_target(sels[a].cmd, DB),
            [op |-> "target", a |-> a])

AlgWithInDegree ==
  \E a \in Held("nodes"), n \in {1} :
    Receive("nodes", with_in_degree(sels[a].cmd, n, DB),
            [op |-> "with_in_degree", a |-> a, n |-> n])

AlgWithOutDegree ==
  \E a \in Held("nodes"), n \in {1} :
    Receive("nodes", with_out_degree(sels[a].cmd, n, DB),
            [op |-> "with_out_degree", a |-> a, n |-> n])

\* id() of the object made last
AlgId ==
  /\ sels # <<>>
  /\ res = NoRes
  /\ res' = id(sels[Len(sels)].cmd, DB)
  /\ sql_call_counter' = sql_call_counter + 1
  /\ UNCHANGED <<nodes, edges, next_node_id, next_edge_id, sels, codec, gql, conn, file>>

NextAlg ==
  \/ AlgV \/ AlgVId \/ AlgLimit \/ AlgWithLabel \/ AlgWithTag \/ AlgWithId
  \/ AlgJoin \/ AlgIntersection \/ AlgComplement \/ AlgExcluding
  \/ AlgIn \/ AlgOut \/ AlgSource \/ AlgTarget
  \/ AlgWithInDegree \/ AlgWithOutDegree \/ AlgId

SpecAlg == InitAlg /\ [][NextAlg]_vars

\* the id set id() reports for a command, or the failure of the call
IdSet(cmd) ==
  LET r == id(cmd, DB)
  IN [ok |-> r.ok, ids |-> {r.ids[i] : i \in 1..Len(r.ids)}]

Combinators ==
  {"limit", "with_label", "with_tag", "with_id", "join", "intersection",
   "complement", "excluding", "in", "out", "source", "target",
   "with_in_degree", "with_out_degree"}

SetOps == {"join", "intersection", "complement", "excluding"}

\* what the receiver A and the argument B of a set combinator should give
SetOp(op, A, B) ==
  CASE op = "join"         -> A \cup B
    [] op = "intersection" -> A \cap B
    [] op = "excluding"    -> A \ B
    [] op = "complement"   -> B \ A

\* the statements handed to GQL::sql before the first Selection was made
AlgBaseCalls == CtorCalls + AlgBuildCalls

C6_SetAlgebra ==
  /\ \A k \in DOMAIN sels :
       sels[k].by.op \in SetOps =>
         LET A == IdSet(sels[sels[k].by.a].cmd)
             B == IdSet(sels[sels[k].by.b].cmd)
             R == IdSet(sels[k].cmd)
         IN (A.ok /\ B.ok) =>
              (R.ok /\ R.ids = SetOp(sels[k].by.op, A.ids, B.ids))
  /\ (res.op = "threw" /\ res.by.op \in SetOps) =>
       ~(IdSet(sels[res.by.a].cmd).ok /\ IdSet(sels[res.by.b].cmd).ok)

\* C7: S.join(S).id() succeeds and returns the id set of S.id(), for every
\* Selection S a chain of combinators can produce.
C7_JoinSelf ==
  /\ \A k \in DOMAIN sels :
       (sels[k].by.op = "join" /\ sels[k].by.a = sels[k].by.b) =>
         LET S == IdSet(sels[sels[k].by.a].cmd)
             R == IdSet(sels[k].cmd)
         IN S.ok => (R.ok /\ R.ids = S.ids)
  /\ (res.op = "threw" /\ res.by.op = "join" /\ res.by.a = res.by.b) =>
       ~IdSet(sels[res.by.a].cmd).ok

\* a command built by its caller, or the exception of the first constructor
\* that threw
Failed == [ok |-> FALSE]

\* C8: A.intersection(B).join(A.excluding(B)).join(B.excluding(A)) has the
\* id set of A.join(B), and A.complement(U).join(A) has the id set of U when
\* ids(A) is a subset of ids(U), however A, B and U were built.
C8_Identities ==
  \A a \in DOMAIN sels : \A b \in Held(sels[a].t) : \A u \in Held(sels[a].t) :
    LET t  == sels[a].t
        A  == sels[a].cmd
        B  == sels[b].cmd
        U  == sels[u].cmd
        i  == intersection(t, A, B, DB)
        x  == excluding(t, A, B, DB)
        y  == excluding(t, B, A, DB)
        j1 == IF i.ok /\ x.ok THEN join(t, i.cmd, x.cmd, DB) ELSE Failed
        j2 == IF j1.ok /\ y.ok THEN join(t, j1.cmd, y.cmd, DB) ELSE Failed
        ab == join(t, A, B, DB)
        c  == complement(t, A, U, DB)
        cu == IF c.ok THEN join(t, c.cmd, A, DB) ELSE Failed
    IN (IdSet(A).ok /\ IdSet(B).ok /\ IdSet(U).ok) =>
         /\ j2.ok /\ ab.ok
         /\ IdSet(j2.cmd).ok
         /\ IdSet(j2.cmd) = IdSet(ab.cmd)
         /\ IdSet(A).ids \subseteq IdSet(U).ids =>
              (cu.ok /\ IdSet(cu.cmd) = IdSet(U))

\* C9: every Selection a combinator produced can be the receiver or the
\* argument of any other combinator and then be materialized: no constructor
\* throws and id() of every object succeeds.
C9_AlwaysAccepted ==
  /\ res.op # "threw"
  /\ \A k \in DOMAIN sels : IdSet(sels[k].cmd).ok

----------------------------------------------------------------------------
(* Label and tag reads *)

IdText == <<105, 100>>                    \* "id"
LabelText == <<108, 97, 98, 101, 108>>    \* "label"
SourceText == <<115, 111, 117, 114, 99, 101>>  \* "source"
TargetText == <<116, 97, 114, 103, 101, 116>>  \* "target"

\* the name SQLite gives a result column written without AS: the text of
\* the expression,  json_extract(tags, '$.<hex>')
JsonExtractText(hex) ==
  <<106, 115, 111, 110, 95, 101, 120, 116, 114, 97, 99, 116, 40,
    116, 97, 103, 115, 44, 32, 39, 36, 46>> \o hex \o <<39, 41>>

\* json_extract(tags, '$.<hex>') as GQL::sql stores it: the text, or "NULL"
JsonExtract(row, hex) ==
  IF hex \in DOMAIN row.tags THEN row.tags[hex] ELSE NULLText

\* a GQL::Result, or the exception of the call
Result(headers, body) == [ok |-> TRUE, headers |-> headers, body |-> body]
NoResult == [ok |-> FALSE, headers |-> <<>>, body |-> <<>>]

\* the columns of tag(keys) that are read from the table itself
Reserved(t) ==
  IF t = "nodes" THEN {IdText, LabelText}
  ELSE {IdText, LabelText, SourceText, TargetText}

\* the value SQLite returns for one column of tag(keys); the id, source and
\* target cells are kept as numbers
RawCell(t, row, i, key) ==
  CASE key = IdText -> i
    [] key = LabelText -> row.label
    [] key = SourceText /\ t = "edges" -> row.source
    [] key = TargetText /\ t = "edges" -> row.target
    [] OTHER -> JsonExtract(row, hex_encode(key))

\* the header SQLite returns for one column of tag(keys): Vertices names
\* the column AS '<hex>', Edges does not
RawHeader(t, key) ==
  IF key \in Reserved(t) THEN key
  ELSE IF t = "nodes" THEN hex_encode(key)
  ELSE JsonExtractText(hex_encode(key))

\* GQL::Vertices::label() / GQL::Edges::label()
label(t, cmd, g) ==
  LET r == EvalCmd(cmd, g)
  IN IF ~r.ok THEN NoResult
     ELSE LET ids == Ascending(r.ids)
              dec == [n \in 1..Len(ids) |-> hex_decode(g[t][ids[n]].label)]
          IN IF \E n \in 1..Len(ids) : ~dec[n].ok THEN NoResult
             ELSE Result(IF ids = <<>> THEN <<>> ELSE <<IdText, LabelText>>,
                         [n \in 1..Len(ids) |-> <<ids[n], dec[n].val>>])

\* GQL::Vertices::tag(key) / GQL::Edges::tag(key)
tag(t, cmd, key, g) ==
  LET r == EvalCmd(cmd, g)
  IN IF ~r.ok THEN NoResult
     ELSE LET ids == Ascending(r.ids)
              dec == [n \in 1..Len(ids) |->
                        hex_decode(JsonExtract(g[t][ids[n]], hex_encode(key)))]
          IN IF \E n \in 1..Len(ids) : ~dec[n].ok THEN NoResult
             ELSE Result(IF ids = <<>> THEN <<>> ELSE <<IdText, key>>,
                         [n \in 1..Len(ids) |-> <<ids[n], dec[n].val>>])

\* GQL::Vertices::tag(keys) / GQL::Edges::tag(keys)
tags(t, cmd, keys, g) ==
  IF keys = <<>> THEN Result(<<>>, <<>>)
  ELSE
  LET r == EvalCmd(cmd, g)
  IN IF ~r.ok THEN NoResult
     ELSE
     LET ids  == Ascending(r.ids)
         cols == IF ids = <<>> THEN {} ELSE DOMAIN keys
         \* titles are decoded unless they name a column of the table
         head == [c \in cols |->
                    IF RawHeader(t, keys[c]) \in Reserved(t)
                    THEN Ok(RawHeader(t, keys[c]))
                    ELSE hex_decode(RawHeader(t, keys[c]))]
     IN IF \E c \in cols : ~head[c].ok THEN NoResult
        ELSE
        LET Skip(c) == IF t = "nodes" THEN head[c].val = IdText
                       ELSE head[c].val \in {IdText, SourceText, TargetText}
            cell == [n \in 1..Len(ids) |-> [c \in cols |->
                       LET raw == RawCell(t, g[t][ids[n]], ids[n], keys[c])
                       IN IF Skip(c) THEN Ok(raw) ELSE hex_decode(raw)]]
        IN IF \E n \in 1..Len(ids) : \E c \in cols : ~cell[n][c].ok
           THEN NoResult
           ELSE Result([c \in cols |-> head[c].val],
                       [n \in 1..Len(ids) |-> [c \in cols |-> cell[n][c].val]])

\* the elements of a set in some order, each once (SELECT DISTINCT)
RECURSIVE Distinct(_)
Distinct(S) ==
  IF S = {} THEN <<>>
  ELSE LET x == CHOOSE y \in S : TRUE IN <<x>> \o Distinct(S \ {x})

\* GQL::Vertices::keys() / GQL::Edges::keys()
keys(t, cmd, g) ==
  LET r == EvalCmd(cmd, g)
  IN IF ~r.ok THEN NoResult
     ELSE LET found == Distinct(UNION {DOMAIN g[t][i].tags : i \in r.ids})
              dec   == [n \in 1..Len(found) |-> hex_decode(found[n])]
          IN IF \E n \in 1..Len(found) : ~dec[n].ok THEN NoResult
             ELSE Result(<<>>, [n \in 1..Len(found) |-> dec[n].val])

InDegreeText == <<105, 110, 95, 100, 101, 103, 114, 101, 101>>        \* "in_degree"
OutDegreeText == <<111, 117, 116, 95, 100, 101, 103, 114, 101, 101>>  \* "out_degree"

\* GQL::Vertices::in_degree
in_degree(cmd, g) ==
  LET r == EvalCmd(cmd, g)
  IN IF ~r.ok THEN NoResult
     ELSE LET ids == Ascending(r.ids)
          IN Result(IF ids = <<>> THEN <<>> ELSE <<IdText, InDegreeText>>,
                    [n \in 1..Len(ids) |->
                       <<ids[n], Degree(g, "target", ids[n])>>])

\* GQL::Vertices::out_degree
out_degree(cmd, g) ==
  LET r == EvalCmd(cmd, g)
  IN IF ~r.ok THEN NoResult
     ELSE LET ids == Ascending(r.ids)
          IN Result(IF ids = <<>> THEN <<>> ELSE <<IdText, OutDegreeText>>,
                    [n \in 1..Len(ids) |->
                       <<ids[n], Degree(g, "source", ids[n])>>])

----------------------------------------------------------------------------
(* Read and write runs: a fluent chain on a small graph whose rows carry   *)
(* no label and no tag yet, so that every value read was written by the    *)
(* chain.                                                                  *)

LabelE == <<-61, -87>>   \* bytes above 127, as non_ascii_test writes
ValueW == <<119>>        \* "w"

\* vertices 1 and 2, edges 1 -> 2 and 2 -> 1, as add_vertex and add_edge
\* leave them
RwNodes == [i \in 1..2 |-> NewNode]
RwEdges == [i \in 1..2 |-> NewEdge(i, 3 - i)]

\* one INSERT for every row
RwBuildCalls == Cardinality(DOMAIN RwNodes) + Cardinality(DOMAIN RwEdges)

InitRW ==
  /\ nodes = RwNodes
  /\ edges = RwEdges
  /\ sql_call_counter = CtorCalls + RwBuildCalls
  /\ next_node_id = 3
  /\ next_edge_id = 3
  /\ sels = <<>>
  /\ res = NoRes
  /\ codec = NoCodec
  /\ InMemory

Setters == {"setLabel", "setTag"}

\* the objects the chain holds that a setter returned
Written == {k \in DOMAIN sels : sels[k].by.op \in Setters}

\* the chain's next object from a factory or a combinator
RwReceive(t, o, by) ==
  /\ Cardinality(DOMAIN sels \ Written) < MaxSels
  /\ res = NoRes
  /\ sql_call_counter' = sql_call_counter + o.calls
  /\ IF o.ok
     THEN sels' = Append(sels, Sel(t, o, by)) /\ res' = NoRes
     ELSE sels' = sels /\ res' = [op |-> "threw", by |-> by]
  /\ UNCHANGED <<nodes, edges, next_node_id, next_edge_id, codec, gql, conn, file>>

\* g.v() or g.e() opens the chain
RwV ==
  /\ sels = <<>>
  /\ \E t \in Tables : RwReceive(t, v(t, DB), [op |-> "v"])

RwWithLabel ==
  /\ sels # <<>>
  /\ LET a == Len(sels)
     IN \E x \in {LabelA} :
          RwReceive(sels[a].t, with_label(sels[a].t, sels[a].cmd, x, DB),
                    [op |-> "with_label", a |-> a, x |-> x])

RwWithTag ==
  /\ sels # <<>>
  /\ LET a == Len(sels)
     IN \E kv \in {<<KeyK, ValueV>>} :
          RwReceive(sels[a].t,
                    with_tag(sels[a].t, sels[a].cmd, kv[1], kv[2], DB),
                    [op |-> "with_tag", a |-> a, key |-> kv[1], val |-> kv[2]])

\* the UPDATE a setter runs on the rows `ids` of its table
Update(tbl, ids, by) ==
  IF by.op = "setLabel" THEN SetLabel(tbl, ids, by.x)
  ELSE SetTag(tbl, ids, by.key, by.val)

\* the UPDATE of a setter on the last object of the chain, then `return
\* *this`: the copy holds the same command and its constructor runs no
\* statement.  `pre` is the id set of the receiver before the UPDATE.
RwWrite(by) ==
  /\ sels # <<>>
  /\ res = NoRes
  /\ Cardinality(Written) < MaxWrites
  /\ LET a == sels[Len(sels)]
         r == EvalCmd(a.cmd, DB)
     IN /\ sql_call_counter' = sql_call_counter + 1
        /\ IF r.ok
           THEN /\ nodes' = IF a.t = "nodes" THEN Update(nodes, r.ids, by)
                            ELSE nodes
                /\ edges' = IF a.t = "edges" THEN Update(edges, r.ids, by)
                            ELSE edges
                /\ sels' = Append(sels,
                     Sel(a.t, [cmd |-> a.cmd, size |-> a.size],
                         [by EXCEPT !.a = Len(sels), !.pre = r.ids]))
                /\ res' = NoRes
           ELSE /\ UNCHANGED <<nodes, edges, sels>>
                /\ res' = [op |-> "threw", by |-> by]
  /\ UNCHANGED <<next_node_id, next_edge_id, codec, gql, conn, file>>

\* GQL::Vertices::label(_label) / GQL::Edges::label(_label)
RwSetLabel ==
  \E x \in {LabelA, LabelE} :
    RwWrite([op |-> "setLabel", a |-> 0, pre |-> {}, x |-> x])

\* GQL::Vertices::tag(_key, _value) / GQL::Edges::tag(_key, _value)
RwSetTag ==
  \E kv \in {<<KeyK, ValueV>>, <<KeyK, ValueW>>, <<LabelText, ValueV>>} :
    RwWrite([op |-> "setTag", a |-> 0, pre |-> {},
             key |-> kv[1], val |-> kv[2]])

\* a read on the last object of the chain ends the run
RwRead(r) ==
  /\ sels # <<>>
  /\ res = NoRes
  /\ res' = r
  /\ sql_call_counter' = sql_call_counter + 1
  /\ UNCHANGED <<nodes, edges, next_node_id, next_edge_id, sels, codec, gql, conn, file>>

Last == sels[Len(sels)]

RwLabel ==
  RwRead([op |-> "label", r |-> label(Last.t, Last.cmd, DB)])

RwTag ==
  \E k \in {KeyK, LabelText} :
    RwRead([op |-> "tag", key |-> k, r |-> tag(Last.t, Last.cmd, k, DB)])

RwTags ==
  \E ks \in {<<KeyK>>, <<IdText, KeyK>>, <<LabelText>>} :
    RwRead([op |-> "tags", keys |-> ks, r |-> tags(Last.t, Last.cmd, ks, DB)])

RwKeys ==
  RwRead([op |-> "keys", r |-> keys(Last.t, Last.cmd, DB)])

RwId ==
  RwRead(id(Last.cmd, DB))

NextRW ==
  \/ RwV \/ RwWithLabel \/ RwWithTag \/ RwSetLabel \/ RwSetTag
  \/ RwLabel \/ RwTag \/ RwTags \/ RwKeys \/ RwId

SpecRW == InitRW /\ [][NextRW]_vars

\* what the chain wrote last to row i: its label ("" when none was written),
\* the keys it tagged the row with, and the value under each
Latest(S) == CHOOSE k \in S : \A j \in S : j <= k
LabelWrites(i) ==
  {k \in Written : sels[k].by.op = "setLabel" /\ i \in sels[k].by.pre}
TagWrites(i, key) ==
  {k \in Written : /\ sels[k].by.op = "setTag"
                   /\ sels[k].by.key = key
                   /\ i \in sels[k].by.pre}
WrittenLabel(i) ==
  IF LabelWrites(i) = {} THEN <<>> ELSE sels[Latest(LabelWrites(i))].by.x
WrittenKeys(i) ==
  {sels[k].by.key : k \in {j \in Written : /\ sels[j].by.op = "setTag"
                                           /\ i \in sels[j].by.pre}}
WrittenTag(i, key) == sels[Latest(TagWrites(i, key))].by.val

\* the keys the chain wrote to the rows a command selects now
WrittenIn(cmd) == UNION {WrittenKeys(i) : i \in IdSet(cmd).ids}

\* C4: what a read returns is what the chain wrote.  label(), tag(k),
\* tag({.., k, ..}) and keys() on a selection succeed; label() gives every
\* row its last written label; tag(k) and tag({.., k, ..}) give every row
\* tagged with k its last written value, under the header k; keys() lists
\* every key written to a row of the selection exactly once; and
\* with_label(x) / with_tag(k, v), called after a write, keep exactly the
\* rows of their receiver whose last written label is x / whose last
\* written value under k is v.
C4_ReadAfterWrite ==
  /\ res.op = "label" /\ Written # {} =>
       /\ res.r.ok
       /\ {res.r.body[n][1] : n \in DOMAIN res.r.body} = IdSet(Last.cmd).ids
       /\ \A n \in DOMAIN res.r.body :
            res.r.body[n][2] = WrittenLabel(res.r.body[n][1])
  /\ res.op = "tag" /\ res.key \in WrittenIn(Last.cmd) =>
       /\ res.r.ok
       /\ {res.r.body[n][1] : n \in DOMAIN res.r.body} = IdSet(Last.cmd).ids
       /\ res.r.headers[2] = res.key
       /\ \A n \in DOMAIN res.r.body :
            res.key \in WrittenKeys(res.r.body[n][1]) =>
              res.r.body[n][2] = WrittenTag(res.r.body[n][1], res.key)
  /\ res.op = "tags" =>
       \A c \in DOMAIN res.keys :
         res.keys[c] \in WrittenIn(Last.cmd) =>
           LET ids == Ascending(IdSet(Last.cmd).ids)
           IN /\ res.r.ok
              /\ Len(res.r.body) = Len(ids)
              /\ res.r.headers[c] = res.keys[c]
              /\ \A n \in DOMAIN res.r.body :
                   res.keys[c] \in WrittenKeys(ids[n]) =>
                     res.r.body[n][c] = WrittenTag(ids[n], res.keys[c])
  /\ res.op = "keys" /\ WrittenIn(Last.cmd) # {} =>
       /\ res.r.ok
       /\ {res.r.body[n] : n \in DOMAIN res.r.body} = WrittenIn(Last.cmd)
       /\ Len(res.r.body) = Cardinality(WrittenIn(Last.cmd))
  /\ \A k \in {j \in DOMAIN sels : Written # {} /\ \A w \in Written : w < j} :
       /\ sels[k].by.op = "with_label" =>
            IdSet(sels[k].cmd).ids =
              {i \in IdSet(sels[sels[k].by.a].cmd).ids :
                 WrittenLabel(i) = sels[k].by.x}
       /\ sels[k].by.op = "with_tag" =>
            IdSet(sels[k].cmd).ids =
              {i \in IdSet(sels[sels[k].by.a].cmd).ids :
                 /\ sels[k].by.key \in WrittenKeys(i)
                 /\ WrittenTag(i, sels[k].by.key) = sels[k].by.val}

\* C10: the object a setter returns, materialized right after the write,
\* has the id set its receiver had immediately before the write
C10_SetterKeepsRows ==
  (res.op = "id" /\ Len(sels) \in Written) =>
    /\ res.ok
    /\ {res.ids[n] : n \in DOMAIN res.ids} = Last.by.pre

\* what the chain that made object k selects on the rows as they are now:
\* the rows of the table for v() / e(), the rows of the receiver with the
\* label or the tag for with_label / with_tag; the object a setter returns
\* stands for its receiver
RECURSIVE Meaning(_)
Meaning(k) ==
  LET by  == sels[k].by
      tbl == DB[sels[k].t]
  IN CASE by.op = "v" -> DOMAIN tbl
       [] by.op \in Setters -> Meaning(by.a)
       [] by.op = "with_label" ->
            {i \in Meaning(by.a) : tbl[i].label = hex_encode(by.x)}
       [] by.op = "with_tag" ->
            {i \in Meaning(by.a) :
               HasTag(tbl[i], hex_encode(by.key), hex_encode(by.val))}

\* C29: a Selection is evaluated on the graph as it is when it is
\* materialized, whatever the length of its text: id() on the last object
\* of a chain gives what the chain means on the rows as the writes made
\* since have left them.
C29_EvaluatedWhenRead ==
  res.op = "id" =>
    /\ res.ok
    /\ {res.ids[n] : n \in DOMAIN res.ids} = Meaning(Len(sels))

----------------------------------------------------------------------------
(* Ordered reads: the objects of the algebra runs, read by every query     *)
(* that returns one row for each element.                                  *)

OrdLabel ==
  RwRead([op |-> "label", r |-> label(Last.t, Last.cmd, DB)])

OrdTag ==
  RwRead([op |-> "tag", key |-> KeyK, r |-> tag(Last.t, Last.cmd, KeyK, DB)])

OrdTags ==
  /\ sels # <<>>
  /\ Last.t = "nodes"
  /\ RwRead([op |-> "tags", keys |-> <<IdText, KeyK>>,
             r |-> tags(Last.t, Last.cmd, <<IdText, KeyK>>, DB)])

OrdInDegree ==
  /\ sels # <<>>
  /\ Last.t = "nodes"
  /\ RwRead([op |-> "in_degree", r |-> in_degree(Last.cmd, DB)])

OrdOutDegree ==
  /\ sels # <<>>
  /\ Last.t = "nodes"
  /\ RwRead([op |-> "out_degree", r |-> out_degree(Last.cmd, DB)])

NextOrd ==
  \/ NextAlg
  \/ OrdLabel \/ OrdTag \/ OrdTags \/ OrdInDegree \/ OrdOutDegree

SpecOrd == InitAlg /\ [][NextOrd]_vars

\* the queries whose rows start with the id of their element
RowReads == {"label", "tag", "tags", "in_degree", "out_degree"}

----------------------------------------------------------------------------
(* Traversal runs: a graph on five vertices, a seed, traversals of it.     *)

\* the edges a graph of these runs is drawn from: the paths 1 -> 2 -> 3 and
\* 4 -> 5, the bridge 2 -> 4, the cycle closing 3 -> 1 and the loop 2 -> 2
EdgePool == << <<1, 2>>, <<2, 3>>, <<4, 5>>, <<2, 4>>, <<3, 1>>, <<2, 2>> >>

TravNodes == [i \in 1..5 |-> NewNode]

\* the first n edges of the pool that are in `chosen`, inserted in pool order
RECURSIVE TravEdges(_, _)
TravEdges(chosen, n) ==
  IF n = 0 THEN <<>>
  ELSE LET rest == TravEdges(chosen, n - 1)
       IN IF n \in chosen
          THEN Put(rest, NextRowid(rest), NewEdge(EdgePool[n][1], EdgePool[n][2]))
          ELSE rest

InitTrav ==
  \E chosen \in SUBSET DOMAIN EdgePool :
    /\ nodes = TravNodes
    /\ edges = TravEdges(chosen, Len(EdgePool))
    /\ sql_call_counter = CtorCalls + 5 + Cardinality(chosen)
    /\ next_node_id = 6
    /\ next_edge_id = Cardinality(chosen) + 1
    /\ sels = <<>>
    /\ res = NoRes
    /\ codec = NoCodec
    /\ InMemory

\* g.v("id = <i>"), the seed
TravSeed ==
  /\ sels = <<>>
  /\ \E i \in {1, 2, 5} :
       Receive("nodes", v_id("nodes", i, DB), [op |-> "v_id", id |-> i])

TravConds == {<<CondTrue, CondTrue>>, <<CondIdNot(2), CondTrue>>,
              <<CondTrue, CondIdNot(1)>>}

TravTraverse ==
  /\ sels # <<>>
  /\ \E c \in TravConds :
       Receive("nodes", traverse(Last.cmd, c[1], c[2]),
               [op |-> "traverse", a |-> Len(sels), node |-> c[1],
                edge |-> c[2]])

TravRTraverse ==
  /\ sels # <<>>
  /\ \E c \in TravConds :
       Receive("nodes", r_traverse(Last.cmd, c[1], c[2]),
               [op |-> "r_traverse", a |-> Len(sels), node |-> c[1],
                edge |-> c[2]])

NextTrav == TravSeed \/ TravTraverse \/ TravRTraverse \/ RwId

SpecTrav == InitTrav /\ [][NextTrav]_vars

\* X holds, with the source of an edge that satisfies the edge condition,
\* its target when that is a vertex satisfying the node condition (source
\* and target exchanged when the edges are followed backwards)
Closed(X, by) ==
  LET near == IF by.op = "r_traverse" THEN "target" ELSE "source"
      far  == IF by.op = "r_traverse" THEN "source" ELSE "target"
  IN \A e \in DOMAIN edges :
       ( /\ CondHolds(by.edge, e)
         /\ edges[e][near] \in X
         /\ edges[e][far] \in DOMAIN nodes
         /\ CondHolds(by.node, edges[e][far]) ) => edges[e][far] \in X

Traversals == {k \in DOMAIN sels : sels[k].by.op \in {"traverse", "r_traverse"}}

C12_WitnessReverse ==
  /\ edges = TravEdges({1, 2, 3, 4}, Len(EdgePool))
  /\ res.op = "id"
  /\ Len(sels) = 2
  /\ sels[1].by.id = 5
  /\ sels[2].by = [op |-> "r_traverse", a |-> 1, node |-> CondTrue,
                   edge |-> CondTrue]
  /\ res.ids = <<1, 2, 4, 5>>

----------------------------------------------------------------------------
(* Degree runs: graphs on three vertices with a loop and parallel edges.   *)

\* the graph of test_vertex_queries (1 -> 2, 1 -> 3, 2 -> 2, 2 -> 3) and a
\* second edge 1 -> 2
DegreePool == << <<1, 2>>, <<1, 3>>, <<2, 2>>, <<2, 3>>, <<1, 2>> >>

\* the edges of the pool that are in `chosen`, inserted in pool order
RECURSIVE DegEdges(_, _)
DegEdges(chosen, n) ==
  IF n = 0 THEN <<>>
  ELSE LET rest == DegEdges(chosen, n - 1)
       IN IF n \in chosen
          THEN Put(rest, NextRowid(rest),
                   NewEdge(DegreePool[n][1], DegreePool[n][2]))
          ELSE rest

InitDeg ==
  \E chosen \in SUBSET DOMAIN DegreePool :
    /\ nodes = [i \in 1..3 |-> NewNode]
    /\ edges = DegEdges(chosen, Len(DegreePool))
    /\ sql_call_counter = CtorCalls + 3 + Cardinality(chosen)
    /\ next_node_id = 4
    /\ next_edge_id = Cardinality(chosen) + 1
    /\ sels = <<>>
    /\ res = NoRes
    /\ codec = NoCodec
    /\ InMemory

\* g.v(), or g.v().limit(2): the selection S
DegSeed ==
  /\ sels = <<>>
  /\ Receive("nodes", v("nodes", DB), [op |-> "v"])

DegLimit ==
  /\ Len(sels) = 1
  /\ Receive("nodes", limit("nodes", Last.cmd, 2, DB),
             [op |-> "limit", a |-> 1, n |-> 2])

Counts == 0..2

DegWithInDegree ==
  /\ sels # <<>>
  /\ \E n \in Counts :
       Receive("nodes", with_in_degree(Last.cmd, n, DB),
               [op |-> "with_in_degree", a |-> Len(sels), n |-> n])

DegWithOutDegree ==
  /\ sels # <<>>
  /\ \E n \in Counts :
       Receive("nodes", with_out_degree(Last.cmd, n, DB),
               [op |-> "with_out_degree", a |-> Len(sels), n |-> n])

NextDeg == DegSeed \/ DegLimit \/ DegWithInDegree \/ DegWithOutDegree \/ RwId

SpecDeg == InitDeg /\ [][NextDeg]_vars

\* the edges of the whole graph that leave / enter vertex i
Leaving(i) == {e \in DOMAIN edges : edges[e].source = i}
Entering(i) == {e \in DOMAIN edges : edges[e].target = i}

\* C13: with_out_degree(n) / with_in_degree(n) on S selects exactly the
\* vertices of S that are the source / target of exactly n edges of the
\* graph, each edge counted (a loop once leaving and once entering, each
\* of two parallel edges), and the vertices without such edges when n = 0
C13_DegreeFilter ==
  /\ res.op # "threw"
  /\ \A k \in DOMAIN sels :
       /\ sels[k].by.op = "with_out_degree" =>
            /\ IdSet(sels[k].cmd).ok
            /\ IdSet(sels[k].cmd).ids =
                 {i \in IdSet(sels[sels[k].by.a].cmd).ids :
                    Cardinality(Leaving(i)) = sels[k].by.n}
       /\ sels[k].by.op = "with_in_degree" =>
            /\ IdSet(sels[k].cmd).ok
            /\ IdSet(sels[k].cmd).ids =
                 {i \in IdSet(sels[sels[k].by.a].cmd).ids :
                    Cardinality(Entering(i)) = sels[k].by.n}

\* on the graph of test_vertex_queries, g.v().with_out_degree(2).id() has
\* returned {1, 2}
C13_Witness ==
  /\ edges = DegEdges({1, 2, 3, 4}, Len(DegreePool))
  /\ Len(sels) = 2
  /\ sels[2].by = [op |-> "with_out_degree", a |-> 1, n |-> 2]
  /\ res.op = "id"
  /\ res.ids = <<1, 2>>

\* with the second edge 1 -> 2 in the graph (vertex 2 is entered by two
\* parallel edges and its loop), g.v().with_in_degree(0).id() has returned {1}
C13_WitnessParallel ==
  /\ edges = DegEdges({1, 2, 3, 4, 5}, Len(DegreePool))
  /\ Len(sels) = 2
  /\ sels[2].by = [op |-> "with_in_degree", a |-> 1, n |-> 0]
  /\ res.op = "id"
  /\ res.ids = <<1>>

----------------------------------------------------------------------------
(* where and each.  The caller's predicate is one of a few pure functions  *)
(* of the object it is given; each of them reads the object once.          *)

Fns == {"all", "none", "odd", "labelled"}

\* what the predicate fn answers for an object that selects the rows X
FnHolds(fn, t, X, g) ==
  CASE fn = "all"      -> TRUE
    [] fn = "none"     -> FALSE
    [] fn = "odd"      -> \E i \in X : i % 2 = 1
    [] fn = "labelled" -> \E i \in X : g[t][i].label = hex_encode(LabelA)

\* the statements the predicate runs on its object: one read
FnCalls == 1

\* GQL::Vertices::each / GQL::Edges::each : owner->v().with_id(id) for every
\* id of id(), in the order of id()
each(t, cmd, g) ==
  LET r == id(cmd, g)
  IN [ok    |-> r.ok,
      calls |-> 1,
      items |-> [n \in DOMAIN r.ids |-> with_id(t, v(t, g).cmd, r.ids[n], g)]]

\* a loop that merges every item, whatever the predicate answers
RECURSIVE WhereLoop_all(_, _, _, _, _, _)
WhereLoop_all(t, out, items, n, fn, g) ==
  IF n > Len(items) \/ ~out.ok THEN out
  ELSE LET item == items[n]
           next == join(t, out.cmd, item.cmd, g)
       IN WhereLoop_all(t, [next EXCEPT !.calls = @ + out.calls + item.calls + FnCalls],
                        items, n + 1, fn, g)

\* the loop of where from item n on: `out` is the object built so far, with
\* the statements run so far in `calls`
RECURSIVE WhereLoop(_, _, _, _, _, _)
WhereLoop(t, out, items, n, fn, g) ==
  IF n > Len(items) \/ ~out.ok THEN out
  ELSE LET item == items[n]
           X    == EvalCmd(item.cmd, g).ids
           next == IF FnHolds(fn, t, X, g)
                   THEN join(t, out.cmd, item.cmd, g)
                   ELSE [out EXCEPT !.calls = 0]
       IN WhereLoop(t, [next EXCEPT !.calls = @ + out.calls + item.calls + FnCalls],
                    items, n + 1, fn, g)

\* GQL::Vertices::where / GQL::Edges::where
where(t, cmd, fn, g) ==
  LET out   == excluding(t, cmd, cmd, g)
      items == each(t, cmd, g)
  IN IF ~out.ok THEN out
     ELSE IF ~items.ok THEN Thrown(out.calls + items.calls, out.size)
     ELSE WhereLoop(t, [out EXCEPT !.calls = @ + items.calls],
                    items.items, 1, fn, g)

\* the rows of the objects the predicate of where is called with, in order
Called(t, cmd, g) ==
  LET items == each(t, cmd, g).items
  IN [n \in DOMAIN items |-> EvalCmd(items[n].cmd, g).ids]

WhereSeed ==
  /\ sels = <<>>
  /\ \E t \in Tables : Receive(t, v(t, DB), [op |-> "v"])

WhereLimit ==
  /\ sels # <<>>
  /\ \E n \in 1..2 :
       Receive(Last.t, limit(Last.t, Last.cmd, n, DB),
               [op |-> "limit", a |-> Len(sels), n |-> n])

WhereWhere ==
  /\ sels # <<>>
  /\ \E fn \in Fns :
       Receive(Last.t, where(Last.t, Last.cmd, fn, DB),
               [op |-> "where", a |-> Len(sels), fn |-> fn,
                called |-> Called(Last.t, Last.cmd, DB)])

NextWhere == WhereSeed \/ WhereLimit \/ WhereWhere \/ RwId

SpecWhere == InitAlg /\ [][NextWhere]_vars

\* C14: where(fn) on S returns the elements of S for which fn answers true,
\* and fn is called once for each element of S, in ascending id order, with
\* an object that selects that element alone
C14_Where ==
  /\ res.op = "threw" => res.by.op # "where"
  /\ \A k \in DOMAIN sels :
       sels[k].by.op = "where" =>
         LET S == IdSet(sels[sels[k].by.a].cmd).ids
         IN /\ IdSet(sels[k].cmd).ok
            /\ IdSet(sels[k].cmd).ids =
                 {i \in S : FnHolds(sels[k].by.fn, sels[k].t, {i}, DB)}
            /\ sels[k].by.called = [n \in 1..Cardinality(S) |-> {Ascending(S)[n]}]

\* where(odd) of the three vertices has been read: {1, 3}
C14_Witness ==
  /\ Len(sels) = 2
  /\ sels[1].t = "nodes"
  /\ sels[2].by.op = "where"
  /\ sels[2].by.fn = "odd"
  /\ Len(sels[2].by.called) = 3
  /\ res.op = "id"
  /\ res.ids = <<1, 3>>

----------------------------------------------------------------------------
(* Limit runs: a chain of combinators on a graph whose edges were not      *)
(* inserted in the order of their sources or targets.                      *)

\* vertices 1, 2, 3 (2 and 3 labelled "a"); edges 1: 2 -> 3, 2: 1 -> 2 and
\* 3: 3 -> 1 (2 and 3 labelled "a")
LimNodes ==
  [i \in 1..3 |-> [NewNode EXCEPT !.label = IF i > 1 THEN hex_encode(LabelA)
                                            ELSE <<>>]]

LimEdges ==
  [i \in 1..3 |->
     [NewEdge(IF i = 1 THEN 2 ELSE IF i = 2 THEN 1 ELSE 3,
              IF i = 1 THEN 3 ELSE IF i = 2 THEN 2 ELSE 1)
        EXCEPT !.label = IF i > 1 THEN hex_encode(LabelA) ELSE <<>>]]

\* an INSERT for every row, an UPDATE for every label
LimBuildCalls ==
  LET Writes(tbl) ==
        Cardinality(DOMAIN tbl)
        + Cardinality({i \in DOMAIN tbl : tbl[i].label # <<>>})
  IN Writes(LimNodes) + Writes(LimEdges)

InitLim ==
  /\ nodes = LimNodes
  /\ edges = LimEdges
  /\ sql_call_counter = CtorCalls + LimBuildCalls
  /\ next_node_id = 4
  /\ next_edge_id = 4
  /\ sels = <<>>
  /\ res = NoRes
  /\ codec = NoCodec
  /\ InMemory

\* the combinators and id() of the algebra runs, on this graph
SpecLim == InitLim /\ [][NextAlg]_vars

\* the n elements of S with the smallest ids, all of S when it has fewer
Smallest(S, n) == {i \in S : Cardinality({j \in S : j < i}) < n}

\* C15: limit(n) on S selects the min(n, |S|) elements of S with the
\* smallest ids, whatever combinators built S
C15_LimitSmallestIds ==
  \A k \in DOMAIN sels :
    sels[k].by.op = "limit" =>
      /\ IdSet(sels[k].cmd).ok
      /\ IdSet(sels[k].cmd).ids =
           Smallest(IdSet(sels[sels[k].by.a].cmd).ids, sels[k].by.n)

----------------------------------------------------------------------------
(* Transactions and the store: sessions are constructed on a path, change  *)
(* the graph, commit, roll back and are destroyed.                         *)

MaxTxCalls == 6     \* statements run after the constructors in a run

\* the statements the object ran after its constructor, and those of the
\* objects before it
Spent == gql.spent + (sql_call_counter - CtorCalls)

\* the file the sessions that are not in memory are opened on
FooDb == "foo.db"

Filepaths == {FooDb, Memory}

\* the ids handed to add_vertex(id) and with_id(id), and the endpoints
\* handed to add_edge: 2 is only a vertex when add_vertex() made it
TxIds == {1}
TxEndpoints == {<<1, 1>>, <<1, 2>>, <<2, 2>>}

\* a database file holding the rows g
Stored(g) == [exists |-> TRUE, rows |-> g]

\* the connection's file after a COMMIT: a database in memory has none
Flushed(path, g, f) == IF path = Memory THEN f ELSE Stored(g)

\* COMMIT that ends the transaction and keeps the rows committed before
COMMIT_discard(c, g) ==
  IF c.tx THEN [ok |-> TRUE, conn |-> [c EXCEPT !.tx = FALSE], g |-> g]
  ELSE [ok |-> FALSE, conn |-> c, g |-> g]

\* COMMIT with the rows g of the open transaction
COMMIT(c, g) ==
  IF c.tx THEN [ok |-> TRUE, conn |-> [tx |-> FALSE, committed |-> g], g |-> g]
  ELSE [ok |-> FALSE, conn |-> c, g |-> g]

\* ROLLBACK that keeps the rows of the transaction
ROLLBACK_keep(c, g) ==
  IF c.tx THEN [ok |-> TRUE, conn |-> [c EXCEPT !.tx = FALSE], g |-> g]
  ELSE [ok |-> FALSE, conn |-> c, g |-> g]

\* ROLLBACK: the rows are those of the last COMMIT again
ROLLBACK(c, g) ==
  IF c.tx
  THEN [ok |-> TRUE, conn |-> [c EXCEPT !.tx = FALSE], g |-> c.committed]
  ELSE [ok |-> FALSE, conn |-> c, g |-> g]

\* BEGIN: refused within a transaction
BEGIN(c) ==
  IF c.tx THEN [ok |-> FALSE, conn |-> c]
  ELSE [ok |-> TRUE, conn |-> [c EXCEPT !.tx = TRUE]]

\* INSERT that is refused after the row was written
InsertRow_written(tbl, i, row) ==
  [ok |-> i \notin DOMAIN tbl, tbl |-> Put(tbl, i, row)]

\* INSERT INTO <tbl> (id, ...) VALUES (i, ...): PRIMARY KEY(id) refuses a
\* second row with the id, and nothing is declared that SQLite checks on
\* source and target (foreign keys are off unless a PRAGMA turns them on)
InsertRow(tbl, i, row) ==
  IF i \in DOMAIN tbl THEN [ok |-> FALSE, tbl |-> tbl]
  ELSE [ok |-> TRUE, tbl |-> Put(tbl, i, row)]

\* DELETE FROM nodes WHERE id IN (SELECT id FROM (<cmd>))
DeleteNodes(g, ids) ==
  [g EXCEPT !.nodes = [i \in DOMAIN g.nodes \ ids |-> g.nodes[i]]]

\* WITH ids AS (SELECT id FROM nodes) DELETE FROM edges
\*   WHERE source NOT IN ids OR target NOT IN ids
DeleteDeadEdges(g) ==
  [g EXCEPT !.edges =
     [e \in {x \in DOMAIN g.edges : /\ g.edges[x].source \in DOMAIN g.nodes
                                    /\ g.edges[x].target \in DOMAIN g.nodes}
        |-> g.edges[e]]]

\* no object, no file
InitTx ==
  /\ gql = [alive |-> FALSE, filepath |-> Memory, persistent |-> TRUE, spent |-> 0]
  /\ conn = [tx |-> FALSE, committed |-> NoRows]
  /\ file = NoFile
  /\ nodes = <<>>
  /\ edges = <<>>
  /\ sql_call_counter = 0
  /\ next_node_id = 1
  /\ next_edge_id = 1
  /\ sels = <<>>
  /\ res = NoRes
  /\ codec = NoCodec

\* a call that ran `calls` statements on the session and left the rows g
Ran(calls, g, r) ==
  /\ gql.alive
  /\ Spent + calls <= MaxTxCalls
  /\ sql_call_counter' = sql_call_counter + calls
  /\ nodes' = g.nodes
  /\ edges' = g.edges
  /\ res' = r
  /\ UNCHANGED <<sels, codec, gql, conn, file>>

\* GQL g(filepath, erase, persistent)
TxOpen ==
  /\ ~gql.alive
  /\ gql.spent < MaxTxCalls
  /\ \E path \in Filepaths, erase \in BOOLEAN, persistent \in BOOLEAN :
       \* GQL g; is the one object in memory
       /\ path = Memory => (~erase /\ persistent)
       /\ LET \* remove_all when _erase and the path exists
              kept == IF erase /\ path # Memory THEN NoFile ELSE file
              \* sqlite3_open and CREATE TABLE IF NOT EXISTS, before BEGIN
              rows == IF path # Memory /\ kept.exists THEN kept.rows
                      ELSE NoRows
              b    == BEGIN([tx |-> FALSE, committed |-> rows])
          IN /\ gql' = [alive |-> TRUE, filepath |-> path,
                        persistent |-> persistent, spent |-> gql.spent]
             /\ file' = Flushed(path, rows, kept)
             /\ conn' = b.conn
             /\ nodes' = rows.nodes
             /\ edges' = rows.edges
             /\ sql_call_counter' = CtorCalls
             /\ next_node_id' = 1
             /\ next_edge_id' = 1
             /\ res' = [op |-> "GQL", ok |-> b.ok, erase |-> erase]
  /\ UNCHANGED <<sels, codec>>

\* ~GQL: COMMIT, sqlite3_close, remove_all when not persistent; the members
\* end with the object
TxDestroy ==
  /\ gql.alive
  /\ LET c == COMMIT(conn, DB)
         f == Flushed(gql.filepath, c.conn.committed, file)
     IN /\ file' = IF ~gql.persistent /\ gql.filepath # Memory THEN NoFile
                   ELSE f
        /\ res' = [op |-> "~GQL", ok |-> c.ok]
  /\ Spent < MaxTxCalls
  /\ gql' = [gql EXCEPT !.alive = FALSE, !.spent = Spent + 1]
  /\ conn' = [tx |-> FALSE, committed |-> NoRows]
  /\ nodes' = <<>>
  /\ edges' = <<>>
  /\ sql_call_counter' = 0
  /\ next_node_id' = 1
  /\ next_edge_id' = 1
  /\ UNCHANGED <<sels, codec>>

\* g.commit(): COMMIT; BEGIN
TxCommit ==
  /\ gql.alive
  /\ Spent + 2 <= MaxTxCalls
  /\ LET c == COMMIT(conn, DB)
         b == BEGIN(c.conn)
     IN /\ conn' = IF c.ok THEN b.conn ELSE conn
        /\ file' = IF c.ok THEN Flushed(gql.filepath, c.conn.committed, file)
                   ELSE file
        /\ sql_call_counter' = sql_call_counter + (IF c.ok THEN 2 ELSE 1)
        /\ res' = [op |-> "commit", ok |-> c.ok /\ b.ok]
  /\ UNCHANGED <<nodes, edges, next_node_id, next_edge_id, sels, codec, gql>>

\* g.rollback(): ROLLBACK; BEGIN
TxRollback ==
  /\ gql.alive
  /\ Spent + 2 <= MaxTxCalls
  /\ LET r == ROLLBACK(conn, DB)
         b == BEGIN(r.conn)
     IN /\ conn' = IF r.ok THEN b.conn ELSE conn
        /\ nodes' = r.g.nodes
        /\ edges' = r.g.edges
        /\ sql_call_counter' = sql_call_counter + (IF r.ok THEN 2 ELSE 1)
        /\ res' = [op |-> "rollback", ok |-> r.ok /\ b.ok]
  /\ UNCHANGED <<next_node_id, next_edge_id, sels, codec, gql, file>>

\* g.add_vertex(): the id is next_node_id++, taken before the INSERT
TxAddVertex ==
  /\ LET r == InsertRow(nodes, next_node_id, NewNode)
     IN Ran(1, [DB EXCEPT !.nodes = r.tbl],
            [op |-> "add_vertex", ok |-> r.ok, id |-> next_node_id])
  /\ next_node_id' = next_node_id + 1
  /\ UNCHANGED next_edge_id

\* g.add_vertex(i)
TxAddVertexId ==
  /\ \E i \in TxIds :
       LET r == InsertRow(nodes, i, NewNode)
       IN Ran(1, [DB EXCEPT !.nodes = r.tbl],
              [op |-> "add_vertex", ok |-> r.ok, id |-> i])
  /\ UNCHANGED <<next_node_id, next_edge_id>>

\* g.add_edge(source, target): the id is next_edge_id++
TxAddEdge ==
  /\ \E p \in TxEndpoints :
       LET r == InsertRow(edges, next_edge_id, NewEdge(p[1], p[2]))
       IN Ran(1, [DB EXCEPT !.edges = r.tbl],
              [op |-> "add_edge", ok |-> r.ok, id |-> next_edge_id,
               source |-> p[1], target |-> p[2]])
  /\ next_edge_id' = next_edge_id + 1
  /\ UNCHANGED next_node_id

\* g.v().label("a")
TxLabel ==
  /\ DOMAIN nodes # {}
  /\ LET a == v("nodes", DB)
     IN Ran(a.calls + 1,
            [DB EXCEPT !.nodes = SetLabel(nodes, EvalCmd(a.cmd, DB).ids, LabelA)],
            [op |-> "label", ok |-> TRUE])
  /\ UNCHANGED <<next_node_id, next_edge_id>>

\* g.v().erase() and g.v().with_id(i).erase()
TxErase ==
  /\ DOMAIN nodes # {}
  /\ \E all \in BOOLEAN, i \in TxIds :
       LET a == v("nodes", DB)
           b == IF all THEN a ELSE with_id("nodes", a.cmd, i, DB)
           S == EvalCmd(b.cmd, DB).ids
       IN Ran((IF all THEN 0 ELSE a.calls) + b.calls + 2,
              DeleteDeadEdges(DeleteNodes(DB, S)),
              [op |-> "erase", ok |-> TRUE, S |-> S])
  /\ UNCHANGED <<next_node_id, next_edge_id>>

NextTx ==
  \/ TxOpen \/ TxDestroy \/ TxCommit \/ TxRollback
  \/ TxAddVertex \/ TxAddVertexId \/ TxAddEdge \/ TxLabel \/ TxErase

SpecTx == InitTx /\ [][NextTx]_vars

\* the rows of tbl whose ids are in keep
Only(tbl, keep) == [i \in DOMAIN tbl \cap keep |-> tbl[i]]

\* the edges of g that have a vertex of S as source or target
Incident(g, S) ==
  {e \in DOMAIN g.edges : g.edges[e].source \in S \/ g.edges[e].target \in S}

\* C16: erase() on a selection S of vertices removes exactly the vertices
\* of S and exactly the edges that have a vertex of S as source or target;
\* every other vertex and edge is left as it was
C16_EraseExactly ==
  [][res'.op = "erase" =>
       /\ nodes' = Only(nodes, DOMAIN nodes \ res'.S)
       /\ edges' = Only(edges, DOMAIN edges \ Incident(DB, res'.S))]_vars

\* C17: while a session lives, the source and the target of every edge are
\* ids of existing vertices
C17_EndpointsExist ==
  gql.alive =>
    \A e \in DOMAIN edges : /\ edges[e].source \in DOMAIN nodes
                            /\ edges[e].target \in DOMAIN nodes

\* C18: a rollback() leaves the graph as it was at the most recent commit(),
\* or at construction when there was none: commit() and the constructor
\* fix the graph of that moment, no other call of the session touches what
\* they fixed, and rollback() puts it back
C18_RollbackToCommit ==
  [][/\ res'.op = "commit" => (DB' = DB /\ conn'.committed = DB)
     /\ res'.op = "GQL" => conn'.committed = DB'
     /\ res'.op = "rollback" =>
          (DB' = conn.committed /\ conn'.committed = conn.committed)
     /\ res'.op \in {"add_vertex", "add_edge", "label", "erase"} =>
          conn'.committed = conn.committed]_vars

\* a session in memory added vertex 1, committed, added vertex 2 and rolled
\* back: 1 is there, 2 is not
C18_Witness ==
  /\ res = [op |-> "rollback", ok |-> TRUE]
  /\ gql.filepath = Memory
  /\ DOMAIN nodes = {1}
  /\ next_node_id = 3

\* C19: destroying a persistent session on a file leaves the file with the
\* graph of that moment, committed or not, and a session opened on it
\* without the erase flag starts with that graph; destroying a session that
\* is not persistent leaves no file; a session opened with the erase flag
\* starts empty
C19_DestroyAndReopen ==
  [][/\ (res'.op = "~GQL" /\ gql.filepath = FooDb) =>
          file' = IF gql.persistent THEN Stored(DB) ELSE NoFile
     /\ (res'.op = "GQL" /\ ~res'.erase /\ gql'.filepath = FooDb
           /\ file.exists) => DB' = file.rows
     /\ (res'.op = "GQL" /\ res'.erase) => DB' = NoRows
     /\ gql.filepath = Memory /\ gql.alive => file' = file]_vars

\* a session added one vertex and was destroyed without a commit; the next
\* one, opened without the erase flag, sees the vertex
C19_Witness ==
  /\ res = [op |-> "GQL", ok |-> TRUE, erase |-> FALSE]
  /\ gql.spent = 2
  /\ DOMAIN nodes # {}

\* destroying a session that is not persistent removed the file of its path
C19_WitnessDeleted ==
  /\ res.op = "~GQL"
  /\ ~gql.persistent
  /\ gql.filepath = FooDb
  /\ file = NoFile

\* C20: a call that fails leaves the graph as it was, uncommitted changes
\* of the transaction included, and leaves the transaction open with what
\* was committed untouched
C20_FailureKeepsTransaction ==
  [][(res'.op # "none" /\ ~res'.ok) =>
       /\ DB' = DB
       /\ conn' = conn
       /\ conn'.tx
       /\ file' = file
       /\ gql' = gql]_vars

\* add_vertex(1) was refused while the transaction holds changes that are
\* not committed
C20_Witness ==
  /\ res = [op |-> "add_vertex", ok |-> FALSE, id |-> 1]
  /\ DB # conn.committed
  /\ conn.tx

----------------------------------------------------------------------------
(* Sessions whose vertices are all made by add_vertex()                    *)

NextAuto ==
  \/ TxOpen \/ TxDestroy \/ TxCommit \/ TxRollback
  \/ TxAddVertex \/ TxAddEdge \/ TxLabel \/ TxErase

SpecAuto == InitTx /\ [][NextAuto]_vars

\* C21: when add_vertex() is the only call that makes vertices, every
\* add_vertex() succeeds and makes a vertex whose id no vertex of the store
\* had, also after rollback() and after the store was closed and opened
\* again without erase
C21_NoCollision ==
  [][res'.op = "add_vertex" =>
       /\ res'.ok
       /\ res'.id \notin DOMAIN nodes
       /\ DOMAIN nodes' = DOMAIN nodes \cup {res'.id}]_vars

----------------------------------------------------------------------------
(* Two sessions: g, with the graph of the algebra runs, and a second       *)
(* object h in memory whose graph is empty.                                *)

\* h.v() and h.e(): objects whose owner is h
CrossV ==
  \E t \in Tables : Receive(t, v(t, NoRows), [op |-> "v", owner |-> "h"])

NextCross ==
  \/ AlgV \/ CrossV
  \/ AlgJoin \/ AlgIntersection \/ AlgComplement \/ AlgExcluding \/ AlgId

SpecCross == InitAlg /\ [][NextCross]_vars

\* the session that owns the object k: a combinator hands its own owner to
\* the object it makes
RECURSIVE OwnerOf(_)
OwnerOf(k) ==
  IF "owner" \in DOMAIN sels[k].by THEN sels[k].by.owner
  ELSE IF "a" \in DOMAIN sels[k].by THEN OwnerOf(sels[k].by.a)
  ELSE "g"

\* C22: combining objects of two sessions raises an error: the caller never
\* receives an object that join, intersection, complement or excluding made
\* from objects with different owners
C22_CrossSessionRefused ==
  \A k \in DOMAIN sels :
    sels[k].by.op \in SetOps => OwnerOf(sels[k].by.a) = OwnerOf(sels[k].by.b)

----------------------------------------------------------------------------
(* One session in which edges are made both ways: GQL::add_edge with the   *)
(* id counter, Vertices::add_edge for all pairs of two Selections           *)

\* A.add_edge(B): the INSERT for the rows of A CROSS JOIN B, whose ids
\* SQLite chooses, then the Edges object over the edges with such a
\* (source, target), constructed on the rows after the INSERT
Vertices_add_edge(l, r, g) ==
  LET ps  == CrossJoin(EvalCmd(l, g).ids, EvalCmd(r, g).ids)
      new == [g EXCEPT !.edges = InsertPairs(@, ps)]
  IN [g |-> new, pairs |-> ps,
      e |-> Construct("edges",
              <<Term([k |-> "pairs", t |-> "edges", sub |-> l, of |-> r])>>,
              new)]

\* g.v().add_edge(g.v()), g.v().with_id(1).add_edge(g.v()), ..., alone or
\* followed by .label("e")
TxCartesian ==
  /\ DOMAIN nodes # {}
  /\ \E la \in BOOLEAN, ra \in BOOLEAN, chain \in BOOLEAN :
       LET a == v("nodes", DB)
           l == IF la THEN a ELSE with_id("nodes", a.cmd, 1, DB)
           r == IF ra THEN a ELSE with_id("nodes", a.cmd, 1, DB)
           m == Vertices_add_edge(l.cmd, r.cmd, DB)
           ids == EvalCmd(m.e.cmd, m.g).ids
       IN Ran(l.calls + r.calls + 1 + m.e.calls + (IF chain THEN 1 ELSE 0),
              IF chain
              THEN [m.g EXCEPT !.edges = SetLabel(@, ids, LabelE)]
              ELSE m.g,
              [op |-> "cartesian", ok |-> m.e.ok, pairs |-> m.pairs,
               made |-> DOMAIN m.g.edges \ DOMAIN edges,
               ids |-> ids, chain |-> chain])
  /\ UNCHANGED <<next_node_id, next_edge_id>>

NextPairs == TxAddVertex \/ TxAddEdge \/ TxCartesian

SpecPairs == InitBounce /\ [][NextPairs]_vars

\* C27: GQL::add_edge(source, target) with existing endpoints succeeds and
\* gives the new edge an id no edge had, whatever calls of GQL::add_edge and
\* of Vertices::add_edge came before it in the session.
C27_FreshEdgeId ==
  [][(/\ res'.op = "add_edge"
      /\ res'.source \in DOMAIN nodes
      /\ res'.target \in DOMAIN nodes)
     => /\ res'.ok
        /\ res'.id \notin DOMAIN edges
        /\ DOMAIN edges' = DOMAIN edges \cup {res'.id}]_vars

\* C28: A.add_edge(B) makes exactly one new edge for every pair of A x B,
\* changes no vertex and no edge that existed, and the Edges it returns are
\* exactly the edges it made, so that a label() chained to it changes the
\* new edges only.
C28_ReturnsCreated ==
  [][res'.op = "cartesian" =>
       /\ nodes' = nodes
       /\ \A e \in DOMAIN edges : e \in DOMAIN edges' /\ edges'[e] = edges[e]
       /\ Cardinality(res'.made) = Len(res'.pairs)
       /\ \A n \in DOMAIN res'.pairs :
            \E e \in res'.made :
              <<edges'[e].source, edges'[e].target>> = res'.pairs[n]
       /\ res'.ids = res'.made]_vars

----------------------------------------------------------------------------
(* GQL::Result: column lookup and merge_rows, after test_merge_rows        *)

MaxRows == 2        \* most rows of a Result handed to merge_rows

\* GQL::Result::index_of
index_of(r, what) ==
  IF \E k \in DOMAIN r.headers : r.headers[k] = what
  THEN Ok(CHOOSE k \in DOMAIN r.headers :
            /\ r.headers[k] = what
            /\ \A j \in 1..(k - 1) : r.headers[j] # what)
  ELSE Throw

\* GQL::Result::operator[](const std::string &): the cells of a column; a
\* Result without rows returns before index_of is called
column(r, col) ==
  IF r.body = <<>> THEN Ok(<<>>)
  ELSE LET ind == index_of(r, col)
       IN IF ~ind.ok THEN Throw
          ELSE Ok([i \in DOMAIN r.body |-> r.body[i][ind.val]])

\* merge_rows taking the k-th new cell from the k-th column of other
merge_rows_samePlace(self, other) ==
  LET oi == column(other, IdText)
      si == column(self, IdText)
      Found(i) == \E j \in DOMAIN oi.val : oi.val[j] = si.val[i]
      Row(i) == CHOOSE j \in DOMAIN oi.val :
                  /\ oi.val[j] = si.val[i]
                  /\ \A m \in 1..(j - 1) : oi.val[m] # si.val[i]
      Lacking(h) == \A k \in DOMAIN self.headers : self.headers[k] # h
      new == SelectSeq(other.headers, Lacking)
      bad == {i \in DOMAIN self.body : ~Found(i)}
      stop == CHOOSE i \in bad : \A j \in bad : i <= j
      Cell(i, k) == other.body[Row(i)][k]
  IN IF ~oi.ok \/ ~si.ok
     THEN [ok |-> FALSE, headers |-> self.headers, body |-> self.body]
     ELSE IF new = <<>> \/ bad = {}
     THEN [ok |-> TRUE, headers |-> self.headers \o new,
           body |-> [i \in DOMAIN self.body |->
                       self.body[i] \o [k \in DOMAIN new |-> Cell(i, k)]]]
     ELSE [ok |-> FALSE, headers |-> Append(self.headers, new[1]),
           body |-> [i \in DOMAIN self.body |->
                       IF i < stop THEN Append(self.body[i], Cell(i, 1))
                       ELSE self.body[i]]]

\* GQL::Result::merge_rows: what self holds when the call returns or throws.
\* to_other[i] is the first row of other with the id of row i of self, and
\* other.size() when there is none.  The columns of other that self lacks
\* are appended one after the other: the header first, then a cell for
\* each row, taken with at(to_other[i]), which throws on the first row
\* that has no counterpart.  to_other is the same for every column, so the
\* call throws on the first column it appends or not at all.
merge_rows(self, other) ==
  LET oi == column(other, IdText)
      si == column(self, IdText)
      Found(i) == \E j \in DOMAIN oi.val : oi.val[j] = si.val[i]
      Row(i) == CHOOSE j \in DOMAIN oi.val :
                  /\ oi.val[j] = si.val[i]
                  /\ \A m \in 1..(j - 1) : oi.val[m] # si.val[i]
      Lacking(h) == \A k \in DOMAIN self.headers : self.headers[k] # h
      new == SelectSeq(other.headers, Lacking)
      bad == {i \in DOMAIN self.body : ~Found(i)}
      stop == CHOOSE i \in bad : \A j \in bad : i <= j
      Cell(i, k) == other.body[Row(i)][index_of(other, new[k]).val]
  IN IF ~oi.ok \/ ~si.ok
     THEN [ok |-> FALSE, headers |-> self.headers, body |-> self.body]
     ELSE IF new = <<>> \/ bad = {}
     THEN [ok |-> TRUE, headers |-> self.headers \o new,
           body |-> [i \in DOMAIN self.body |->
                       self.body[i] \o [k \in DOMAIN new |-> Cell(i, k)]]]
     ELSE [ok |-> FALSE, headers |-> Append(self.headers, new[1]),
           body |-> [i \in DOMAIN self.body |->
                       IF i < stop THEN Append(self.body[i], Cell(i, 1))
                       ELSE self.body[i]]]

\* the header names of the test
FizzText == <<102, 105, 122, 122>>   \* "fizz"
BuzzText == <<98, 117, 122, 122>>    \* "buzz"

\* the ids of the rows, and the headers of self and of other; no header
\* occurs twice in a Result
RowIds == 1..3
SelfHeaders == {<<IdText, FizzText>>, <<IdText>>, <<FizzText>>}
OtherHeaders == {<<BuzzText, IdText>>, <<IdText>>, <<IdText, FizzText>>,
                 <<IdText, BuzzText, FizzText>>, <<BuzzText>>}

\* the Result `who` with the headers hs and a row for each id of ids: the
\* id in the id column (the same cell in every Result), and in every other
\* column a cell that names the Result, the column and the row
Table(who, hs, ids) ==
  [headers |-> hs,
   body |-> [i \in DOMAIN ids |->
               [k \in DOMAIN hs |-> IF hs[k] = IdText
                                    THEN <<"id", IdText, ids[i]>>
                                    ELSE <<who, hs[k], i>>]]]

IdRows == UNION {[1..n -> RowIds] : n \in 0..MaxRows}

\* the two Results of a call
InitResult ==
  /\ InMemory
  /\ nodes = <<>>
  /\ edges = <<>>
  /\ sql_call_counter = CtorCalls
  /\ next_node_id = 1
  /\ next_edge_id = 1
  /\ sels = <<>>
  /\ codec = NoCodec
  /\ \E hs \in SelfHeaders, ho \in OtherHeaders, a \in IdRows, b \in IdRows :
       res = [op |-> "args", self |-> Table("a", hs, a),
              other |-> Table("b", ho, b)]

\* self.merge_rows(other)
ResMergeRows ==
  /\ res.op = "args"
  /\ res' = [op |-> "merge_rows", self |-> res.self, other |-> res.other,
             out |-> merge_rows(res.self, res.other)]
  /\ UNCHANGED <<nodes, edges, sql_call_counter, next_node_id, next_edge_id,
                  sels, codec, gql, conn, file>>

\* self[col]
ResColumn ==
  /\ res.op = "args"
  /\ \E col \in {IdText, FizzText, BuzzText} :
       res' = [op |-> "column", self |-> res.self, col |-> col,
               out |-> column(res.self, col)]
  /\ UNCHANGED <<nodes, edges, sql_call_counter, next_node_id, next_edge_id,
                  sels, codec, gql, conn, file>>

\* self.index_of(col)
ResIndexOf ==
  /\ res.op = "args"
  /\ \E col \in {IdText, FizzText, BuzzText} :
       res' = [op |-> "index_of", self |-> res.self, col |-> col,
               out |-> index_of(res.self, col)]
  /\ UNCHANGED <<nodes, edges, sql_call_counter, next_node_id, next_edge_id,
                  sels, codec, gql, conn, file>>

NextResult == ResMergeRows \/ ResColumn \/ ResIndexOf

SpecResult == InitResult /\ [][NextResult]_vars

\* the Result has an id column
HasIdColumn(r) == \E k \in DOMAIN r.headers : r.headers[k] = IdText

\* the rows of other that hold the id of row i of self
Counterparts(self, other, i) ==
  {j \in DOMAIN other.body :
     other.body[j][index_of(other, IdText).val]
       = self.body[i][index_of(self, IdText).val]}

\* every row of self has exactly one counterpart in other
Matched(self, other) ==
  \A i \in DOMAIN self.body : Cardinality(Counterparts(self, other, i)) = 1

\* the headers of other that self lacks, in the order of other
NewHeaders(self, other) ==
  LET Lacking(h) == \A k \in DOMAIN self.headers : self.headers[k] # h
  IN SelectSeq(other.headers, Lacking)

\* C23: when every id of self occurs exactly once in other,
\* self.merge_rows(other) succeeds, keeps the rows of self with their order
\* and cells, appends the headers of other that self lacks in the order of
\* other, and appends to each row the cells of these columns from the row
\* of other with the same id, whatever the order of the rows and columns of
\* other.
C23_MergeComplete ==
  (/\ res.op = "merge_rows"
   /\ HasIdColumn(res.self) /\ HasIdColumn(res.other)
   /\ Matched(res.self, res.other))
  => LET new == NewHeaders(res.self, res.other)
     IN /\ res.out.ok
        /\ res.out.headers = res.self.headers \o new
        /\ DOMAIN res.out.body = DOMAIN res.self.body
        /\ \A i \in DOMAIN res.self.body :
             \E j \in Counterparts(res.self, res.other, i) :
               res.out.body[i]
                 = res.self.body[i] \o [k \in DOMAIN new |-> <<"b", new[k], j>>]

\* a merge of the test's shape: the id column of other is not its first
\* column, its rows are in another order than those of self, and it brings
\* a column that self lacks
C23_Witness ==
  /\ res.op = "merge_rows"
  /\ res.self.headers = <<IdText, FizzText>>
  /\ res.other.headers = <<BuzzText, IdText>>
  /\ Len(res.self.body) = 2
  /\ Matched(res.self, res.other)
  /\ Counterparts(res.self, res.other, 1) = {2}
  /\ res.out.ok
  /\ Len(res.out.headers) = 3

\* C24: merge_rows fails whenever a row of self has no counterpart or more
\* than one counterpart in other, whatever columns other has.
C24_MergeRefusesUnmatched ==
  (/\ res.op = "merge_rows"
   /\ HasIdColumn(res.self) /\ HasIdColumn(res.other)
   /\ ~Matched(res.self, res.other))
  => ~res.out.ok

\* C25: the lookup of a column by a header that is not among the headers
\* fails, also for a Result without rows.
C25_MissingColumn ==
  (/\ res.op = "column"
   /\ \A k \in DOMAIN res.self.headers : res.self.headers[k] # res.col)
  => ~res.out.ok

\* C30: a merge_rows that fails leaves self as it was: no header and no
\* cell is appended.
C30_FailedMergeKeepsSelf ==
  (res.op = "merge_rows" /\ ~res.out.ok)
  => /\ res.out.headers = res.self.headers
     /\ res.out.body = res.self.body

----------------------------------------------------------------------------
(* Codec runs: hex_encode and hex_decode applied to bounded inputs *)

\* Finite sequences over S of length at most n
SeqsUpTo(S, n) == UNION {[1..k -> S] : k \in 0..n}

\* zero, high-bit (negative) chars, the largest char, and the letters N U L
SampleBytes == {0, -1, -128, 127, 78, 85, 76}
ByteStrings == SeqsUpTo(SampleBytes, MaxStrLen - 1) \cup {NULLText}
                 \cup {s \in [1..MaxStrLen -> {0, -1, 78}] : TRUE}

\* '0' '9' 'A' 'F' (hex digits), 'G' 'a' (no hex digits), 'N' 'U' 'L'
SampleChars == {48, 57, 65, 70, 71, 97, 78, 85, 76}
Texts == SeqsUpTo(SampleChars, MaxTextLen)

\* A codec run starts with the argument of the call: a byte string for
\* hex_encode, or a text of any origin for hex_decode.
InitHex ==
  /\ InitSession
  /\ \/ \E s \in ByteStrings :
          codec = [op |-> "string", in |-> s, text |-> <<>>, out |-> Throw]
     \/ \E w \in Texts :
          codec = [op |-> "text", in |-> <<>>, text |-> w, out |-> Throw]

\* hex_encode(s)
HexEncode ==
  /\ codec.op = "string"
  /\ codec' = [codec EXCEPT !.op = "encode", !.text = hex_encode(codec.in)]
  /\ UNCHANGED Session

\* hex_decode(hex_encode(s)), as test_hex does
HexDecodeEncoded ==
  /\ codec.op = "encode"
  /\ codec' = [codec EXCEPT !.op = "roundtrip",
                            !.out = hex_decode(codec.text)]
  /\ UNCHANGED Session

\* hex_decode(w) for a text w of any origin
HexDecode ==
  /\ codec.op = "text"
  /\ codec' = [codec EXCEPT !.op = "decode", !.out = hex_decode(codec.text)]
  /\ UNCHANGED Session

NextHex == HexEncode \/ HexDecodeEncoded \/ HexDecode

SpecHex == InitHex /\ [][NextHex]_vars

HexDigits == {to_hex[i] : i \in 1..16}

\* w is hex_encode(s) for some byte string s: an even number of hex digits
\* (every pair of digits is the image of one of the 256 chars)
IsEncoding(w) ==
  /\ Len(w) % 2 = 0
  /\ \A i \in 1..Len(w) : w[i] \in HexDigits

\* C3: hex_decode(hex_encode(s)) = s for every byte string s (the empty
\* string, chars with the high bit set and "NULL" included); hex_encode(s)
\* has 2*|s| characters, all of them in 0-9A-F, and no other byte string
\* has the same encoding.
C3_RoundTrip ==
  /\ codec.op = "roundtrip" => codec.out = Ok(codec.in)
  /\ codec.op \in {"encode", "roundtrip"} =>
       /\ Len(codec.text) = 2 * Len(codec.in)
       /\ \A i \in 1..Len(codec.text) : codec.text[i] \in HexDigits
  /\ codec.op = "encode" =>
       \A s \in ByteStrings : hex_encode(s) = codec.text => s = codec.in

\* a round trip of a string that holds a high-bit char
C3_Witness ==
  /\ codec.op = "roundtrip"
  /\ \E i \in 1..Len(codec.in) : codec.in[i] < 0
  /\ codec.out = Ok(codec.in)

\* a round trip of the string "NULL"
C3_WitnessNull ==
  /\ codec.op = "roundtrip"
  /\ codec.in = NULLText

\* C5: hex_decode raises an error for every text that is not the encoding
\* of a byte string; it never returns a value for such a text.
C5_RejectsForeign ==
  (codec.op = "decode" /\ ~IsEncoding(codec.text)) => ~codec.out.ok

====
